---- MODULE Spec2Model ----
(***************************************************************************)
(* State-machine model of the Doctoralia migration pipeline:               *)
(*   main (src/src/index.ts), DoctoraliaScraper (src/unnamed/part_000),    *)
(*   MigrationService (src/unnamed/part_004), ErrorTracker                 *)
(*   (src/src/utils/error-tracker.ts), PatientGenerator                    *)
(*   (src/unnamed/part_003), AppointmentGenerator (src/src/index.ts).      *)
(* Strings the code inspects character by character (names, categories,    *)
(* service names) are sequences of one-character tokens; an accented       *)
(* letter is the token of its base letter followed by an apostrophe.       *)
(***************************************************************************)
EXTENDS Integers, Sequences, FiniteSets, TLC

VARIABLES
    pc,             \* position of main() (index.ts)
    exitCode,       \* argument of process.exit, -1 while running
    steps,          \* pipeline steps main() has started, in order
    warned,         \* main() printed the "completed with N errors" warning
    errors,         \* ErrorTracker.errors
    addCalls,       \* number of addError calls since the last clear()
    db,             \* row counts of the store, per table
    attempts,       \* number of create() calls issued, per table
    faults,         \* number of collaborator failures injected so far
    today,          \* day of week of "new Date()" (0 = Sunday)
    variant,        \* the scraper of the build: "city" (part_000) or
                    \* "specialty" (part_001)
    cityIdx,        \* scrapeDoctors: index of the city being crawled
    page,           \* scrapeDoctorsByCity: page of the page loop
    searchResults,  \* scrapeDoctorsByCity: aggregated candidates
    resIdx,         \* scrapeDoctorsByCity: index in searchResults
    processed,      \* scrapeDoctorsByCity: accepted records of the scope
    doctors,        \* scrapeDoctorsByCity: records of the scope
    allDoctors,     \* scrapeDoctors: records of the run
    scrapedUrls,    \* DoctoraliaScraper.scrapedUrls
    scrapeOutcome,  \* how scrapeDoctors ended: "none", "returned", "raised"
    pageLog,        \* search-page requests of the current scope, in order
    candidateLog,   \* candidates the current scope has handled, in order, with
                    \* what was done on each: profile requested, fields
                    \* extracted, validator called
    pageFailures,   \* the (city, page) requests of the run that failed
    insIdx,         \* index of the insert loops of MigrationService
    insertedDoctors,
    patientsData,
    insertedPatients,
    appointmentsData,
    exitCodeB,      \* exit status of the same run read against the log logB
    stepsB,         \* steps of the same run read against the log logB
    warnedB,        \* warning of the same run read against the log logB
    arg,            \* argument of the function called on its own
    ret,            \* what that call returned
    wait            \* progress of a call of WaitForDb.wait: loop variable,
                    \* promise, timer and socket of the attempt, sleeps so far

vars == << pc, exitCode, steps, warned, errors, addCalls, db, attempts, faults,
           today, variant, cityIdx, page, searchResults, resIdx, processed, doctors,
           allDoctors, scrapedUrls, scrapeOutcome, pageLog, candidateLog,
           pageFailures, insIdx, insertedDoctors, patientsData,
           insertedPatients, appointmentsData, exitCodeB, stepsB, warnedB,
           arg, ret, wait >>

----------------------------------------------------------------------------
(* Bounds of the model and constants of the program.                        *)

\* MAX_DOCTORS_PER_SPECIALTY of the run (part_000:57, default 45)
MaxDoctorsPerCity == 2
\* NUM_PATIENTS of the run (part_003:14, default 100)
NumPatients == 2
\* NUM_APPOINTMENTS_PER_DOCTOR of the run (index.ts:116, default 10)
NumAppointmentsPerDoctor == 1
\* collaborator failures (store rejections, failed requests) in one run
MaxFaults == 1
\* longest log explored when ErrorTracker is driven on its own
MaxLog == 4

\* this.maxPages (part_000:58)
maxPages == 3
\* days of the synthesized availability window (part_000:545)
WindowDays == 14
\* citas por bloque de disponibilidad (index.ts:140)
PerBlock == 4
\* slotDuration in minutes (index.ts:178)
SlotMinutes == 30

\* the null of a record-valued result
Null == [null |-> TRUE]

----------------------------------------------------------------------------
(* String primitives of the JavaScript runtime, over character sequences.   *)

UpperChars == << "A","B","C","D","E","F","G","H","I","J","K","L","M","N","O",
                 "P","Q","R","S","T","U","V","W","X","Y","Z",
                 "A'","E'","I'","O'","U'","N~" >>
LowerChars == << "a","b","c","d","e","f","g","h","i","j","k","l","m","n","o",
                 "p","q","r","s","t","u","v","w","x","y","z",
                 "a'","e'","i'","o'","u'","n~" >>

LowerOf(c) ==
    IF \E i \in 1..Len(UpperChars) : UpperChars[i] = c
    THEN LowerChars[CHOOSE i \in 1..Len(UpperChars) : UpperChars[i] = c]
    ELSE c

UpperOf(c) ==
    IF \E i \in 1..Len(LowerChars) : LowerChars[i] = c
    THEN UpperChars[CHOOSE i \in 1..Len(LowerChars) : LowerChars[i] = c]
    ELSE c

toLowerCase(s) == [i \in 1..Len(s) |-> LowerOf(s[i])]
toUpperCase(s) == [i \in 1..Len(s) |-> UpperOf(s[i])]

\* String.prototype.includes
includes(s, w) ==
    \E i \in 0..(Len(s) - Len(w)) : SubSeq(s, i + 1, i + Len(w)) = w

\* the regular-expression class \s, as far as the model's alphabet goes
IsSpace(c) == c \in {" ", "\t", "\n"}

DigitChars == << "0", "1", "2", "3", "4", "5", "6", "7", "8", "9" >>

\* the regular-expression class \d
IsDigit(c) == \E d \in 1..Len(DigitChars) : DigitChars[d] = c

\* String.prototype.trim
trim(s) ==
    LET keep == {i \in 1..Len(s) : ~IsSpace(s[i])}
    IN  IF keep = {} THEN << >>
        ELSE SubSeq(s, CHOOSE i \in keep : \A j \in keep : i <= j,
                       CHOOSE i \in keep : \A j \in keep : i >= j)

\* s.split(' ').length
splitLength(s) == 1 + Cardinality({i \in 1..Len(s) : s[i] = " "})

\* s with its leading run of \s removed
SkipSpaces(s) ==
    LET keep == {i \in 1..Len(s) : ~IsSpace(s[i])}
    IN  IF keep = {} THEN << >>
        ELSE SubSeq(s, CHOOSE i \in keep : \A j \in keep : i <= j, Len(s))

startsWithI(s, p) ==
    /\ Len(s) >= Len(p)
    /\ toLowerCase(SubSeq(s, 1, Len(p))) = p

----------------------------------------------------------------------------
(* DoctoraliaScraper: name clean-up and the record validator.               *)

\* the alternatives of /^(Dr\.|Dra\.|Ps\.?|Odont\.|Lic\.|Mg\.)\s*/gi, in order
\* ("Ps\.?" is greedy: with the dot first, without it second)
TitlePrefixes == << <<"d","r",".">>, <<"d","r","a",".">>, <<"p","s",".">>,
                    <<"p","s">>, <<"o","d","o","n","t",".">>,
                    <<"l","i","c",".">>, <<"m","g",".">> >>

\* name.replace(/^(...)\s*/gi, '').trim(), prefixes being the alternatives
stripTitle(name, prefixes) ==
    LET hits == {k \in 1..Len(prefixes) : startsWithI(name, prefixes[k])}
    IN  IF hits = {} THEN trim(name)
        ELSE LET k == CHOOSE h \in hits : \A j \in hits : h <= j
             IN  trim(SkipSpaces(SubSeq(name, Len(prefixes[k]) + 1, Len(name))))

\* part_000:191-193
cleanName(doctorName) == stripTitle(doctorName, TitlePrefixes)

blacklist == << <<"c","l","i'","n","i","c","a">>,
                <<"c","e","n","t","r","o"," ","m","e'","d","i","c","o">>,
                <<"h","o","s","p","i","t","a","l">>,
                <<"p","o","l","i","c","l","i'","n","i","c","o">>,
                <<"s","e","r","v","i","c","i","o","s"," ","m","e'","d","i","c","o","s">> >>

\* the validator without its toLowerCase
isValidDoctorCaseSensitive(doctor) ==
    LET name == doctor.fullName
    IN  /\ \A k \in 1..Len(blacklist) : ~includes(name, blacklist[k])
        /\ ~(/\ doctor.fullName = toUpperCase(doctor.fullName)
             /\ includes(doctor.fullName, <<" ">>))
        /\ splitLength(trim(doctor.fullName)) >= 2

isValidDoctor(doctor) ==
    LET name == toLowerCase(doctor.fullName)
    IN  /\ \A k \in 1..Len(blacklist) : ~includes(name, blacklist[k])
        /\ ~(/\ doctor.fullName = toUpperCase(doctor.fullName)
             /\ includes(doctor.fullName, <<" ">>))
        /\ splitLength(trim(doctor.fullName)) >= 2

----------------------------------------------------------------------------
(* DoctoraliaScraper: services and availability of a profile.               *)

RECURSIVE dedupByNameExact(_, _, _)
\* the same with the names compared as they are written
dedupByNameExact(items, seen, acc) ==
    IF items = << >> THEN [seen |-> seen, treatments |-> acc]
    ELSE LET name == trim(Head(items))
         IN  IF name = << >> \/ name \in seen
             THEN dedupByNameExact(Tail(items), seen, acc)
             ELSE dedupByNameExact(Tail(items), seen \cup {name},
                                   Append(acc, [name |-> name]))

RECURSIVE dedupByName(_, _, _)
\* the .each() callbacks of extractTreatments: skip an empty name and a name
\* already seen ignoring case, keep the others in order
dedupByName(items, seen, acc) ==
    IF items = << >> THEN [seen |-> seen, treatments |-> acc]
    ELSE LET name == trim(Head(items))
             nameLower == toLowerCase(name)
         IN  IF name = << >> \/ nameLower \in seen
             THEN dedupByName(Tail(items), seen, acc)
             ELSE dedupByName(Tail(items), seen \cup {nameLower},
                              Append(acc, [name |-> name]))

extractTreatments(doc) ==
    LET first == dedupByName(doc.serviceItems, {}, << >>)
    IN  IF Len(first.treatments) = 0
        THEN dedupByName(doc.headings, first.seen, first.treatments).treatments
        ELSE first.treatments

mapping ==
  << [key |-> <<"c","a","r","d","i","o">>,
      value |-> << <<"C","o","n","s","u","l","t","a"," ","c","a","r","d","i","o","l","o'","g","i","c","a">>,
                   <<"E","l","e","c","t","r","o","c","a","r","d","i","o","g","r","a","m","a">>,
                   <<"E","c","o","c","a","r","d","i","o","g","r","a","m","a">> >>],
     [key |-> <<"d","e","r","m","a">>,
      value |-> << <<"C","o","n","s","u","l","t","a"," ","d","e","r","m","a","t","o","l","o'","g","i","c","a">>,
                   <<"T","r","a","t","a","m","i","e","n","t","o"," ","a","c","n","e'">>,
                   <<"P","e","e","l","i","n","g">> >>],
     [key |-> <<"p","e","d","i","a","t","r">>,
      value |-> << <<"C","o","n","s","u","l","t","a"," ","p","e","d","i","a'","t","r","i","c","a">>,
                   <<"C","o","n","t","r","o","l"," ","n","i","n~","o"," ","s","a","n","o">>,
                   <<"V","a","c","u","n","a","c","i","o'","n">> >>],
     [key |-> <<"p","s","i","c","o">>,
      value |-> << <<"T","e","r","a","p","i","a"," ","i","n","d","i","v","i","d","u","a","l">>,
                   <<"T","e","r","a","p","i","a"," ","p","a","r","e","j","a">>,
                   <<"E","v","a","l","u","a","c","i","o'","n"," ","p","s","i","c","o","l","o'","g","i","c","a">> >>],
     [key |-> <<"p","s","i","q","u","i","a","t","r">>,
      value |-> << <<"C","o","n","s","u","l","t","a"," ","p","s","i","q","u","i","a'","t","r","i","c","a">>,
                   <<"E","v","a","l","u","a","c","i","o'","n">>,
                   <<"S","e","g","u","i","m","i","e","n","t","o">> >>],
     [key |-> <<"d","e","n","t">>,
      value |-> << <<"L","i","m","p","i","e","z","a"," ","d","e","n","t","a","l">>,
                   <<"B","l","a","n","q","u","e","a","m","i","e","n","t","o">>,
                   <<"O","r","t","o","d","o","n","c","i","a">> >>],
     [key |-> <<"n","u","t","r","i">>,
      value |-> << <<"C","o","n","s","u","l","t","a"," ","n","u","t","r","i","c","i","o","n","a","l">>,
                   <<"P","l","a","n"," ","a","l","i","m","e","n","t","i","c","i","o">> >>] >>

ConsultaGeneral == <<"C","o","n","s","u","l","t","a"," ","g","e","n","e","r","a","l">>

\* the synthesis with the last key of the table that matches
generateMockTreatmentsLastKey(specialty) ==
    LET normalized == toLowerCase(specialty)
        hits == {k \in 1..Len(mapping) : includes(normalized, mapping[k].key)}
        names == IF hits = {} THEN << ConsultaGeneral >>
                 ELSE mapping[CHOOSE k \in hits : \A j \in hits : k >= j].value
    IN  [i \in 1..Len(names) |-> [name |-> names[i]]]

\* the random price and duration of a synthesized service are not modelled
generateMockTreatments(specialty) ==
    LET normalized == toLowerCase(specialty)
        hits == {k \in 1..Len(mapping) : includes(normalized, mapping[k].key)}
        names == IF hits = {} THEN << ConsultaGeneral >>
                 ELSE mapping[CHOOSE k \in hits : \A j \in hits : k <= j].value
    IN  [i \in 1..Len(names) |-> [name |-> names[i]]]

\* instants are minutes after 00:00 of the current day
At(day, hour) == day * 1440 + hour * 60

RECURSIVE mockDaysSundayOnly(_, _, _)
\* a synthesis that skips only the day getDay() numbers 0
mockDaysSundayOnly(day, dow, isOnline) ==
    IF day > WindowDays THEN << >>
    ELSE LET modality == IF isOnline THEN "online" ELSE "in_person"
             rest == mockDaysSundayOnly(day + 1, dow, isOnline)
         IN  IF (dow + day) % 7 = 0 THEN rest
             ELSE << [startAt |-> At(day, 9), endAt |-> At(day, 13), modality |-> modality],
                     [startAt |-> At(day, 15), endAt |-> At(day, 19), modality |-> modality] >>
                  \o rest

RECURSIVE mockDays(_, _, _)
\* the loop of generateMockAvailability from day on (part_000:545-567), dow
\* being today.getDay()
mockDays(day, dow, isOnline) ==
    IF day > WindowDays THEN << >>
    ELSE LET modality == IF isOnline THEN "online" ELSE "in_person"
             rest == mockDays(day + 1, dow, isOnline)
         IN  IF (dow + day) % 7 = 0 \/ (dow + day) % 7 = 6 THEN rest
             ELSE << [startAt |-> At(day, 9), endAt |-> At(day, 13), modality |-> modality],
                     [startAt |-> At(day, 15), endAt |-> At(day, 19), modality |-> modality] >>
                  \o rest

generateMockAvailability(isOnline, dow) == mockDays(1, dow, isOnline)

----------------------------------------------------------------------------
(* cleanAddress (part_000:233-244), one operator per replace of the chain.  *)

\* the index of the first character of s at or after i that is not \s
\* (Len(s) + 1 when there is none)
AfterSpaces(s, i) ==
    LET rest == {j \in i..Len(s) : ~IsSpace(s[j])}
    IN  IF rest = {} THEN Len(s) + 1 ELSE CHOOSE j \in rest : \A k \in rest : j <= k

RECURSIVE collapseSpaces(_, _)
\* .replace(/\s+/g, ' '), from index i on
collapseSpaces(s, i) ==
    IF i > Len(s) THEN << >>
    ELSE IF IsSpace(s[i]) THEN << " " >> \o collapseSpaces(s, AfterSpaces(s, i))
    ELSE << s[i] >> \o collapseSpaces(s, i + 1)

\* .replace(/\n/g, '') and .replace(/\t/g, '')
removeChar(s, c) == SelectSeq(s, LAMBDA x : x # c)

RECURSIVE collapseCommas(_, _)
\* .replace(/,\s*,/g, ','), from index i on: the search goes on after the
\* second comma of a match
collapseCommas(s, i) ==
    IF i > Len(s) THEN << >>
    ELSE LET j == AfterSpaces(s, i + 1)
         IN  IF s[i] = "," /\ j <= Len(s) /\ s[j] = ","
             THEN << "," >> \o collapseCommas(s, j + 1)
             ELSE << s[i] >> \o collapseCommas(s, i + 1)

\* .replace(/^\s*,\s*/, '')
stripLeadingComma(s) ==
    LET j == AfterSpaces(s, 1)
    IN  IF j <= Len(s) /\ s[j] = "," THEN SubSeq(s, AfterSpaces(s, j + 1), Len(s))
        ELSE s

\* s without its trailing run of \s
DropTrailingSpaces(s) ==
    LET keep == {i \in 1..Len(s) : ~IsSpace(s[i])}
    IN  IF keep = {} THEN << >>
        ELSE SubSeq(s, 1, CHOOSE i \in keep : \A j \in keep : i >= j)

\* .replace(/\s*,\s*$/, '')
stripTrailingComma(s) ==
    LET t == DropTrailingSpaces(s)
    IN  IF t # << >> /\ t[Len(t)] = ","
        THEN DropTrailingSpaces(SubSeq(t, 1, Len(t) - 1))
        ELSE s

RECURSIVE spacesBeforeComma(_, _)
\* .replace(/\s+,/g, ','), from index i on
spacesBeforeComma(s, i) ==
    IF i > Len(s) THEN << >>
    ELSE LET j == AfterSpaces(s, i)
         IN  IF IsSpace(s[i]) /\ j <= Len(s) /\ s[j] = ","
             THEN << "," >> \o spacesBeforeComma(s, j + 1)
             ELSE << s[i] >> \o spacesBeforeComma(s, i + 1)

RECURSIVE spacesAfterComma(_, _)
\* .replace(/,\s+/g, ', '), from index i on
spacesAfterComma(s, i) ==
    IF i > Len(s) THEN << >>
    ELSE IF s[i] = "," /\ i < Len(s) /\ IsSpace(s[i + 1])
         THEN << ",", " " >> \o spacesAfterComma(s, AfterSpaces(s, i + 1))
         ELSE << s[i] >> \o spacesAfterComma(s, i + 1)

cleanAddress(addr) ==
    LET s1 == collapseSpaces(addr, 1)
        s2 == removeChar(s1, "\n")
        s3 == removeChar(s2, "\t")
        s4 == collapseCommas(s3, 1)
        s5 == stripLeadingComma(s4)
        s6 == stripTrailingComma(s5)
        s7 == spacesBeforeComma(s6, 1)
        s8 == spacesAfterComma(s7, 1)
    IN  trim(s8)

----------------------------------------------------------------------------
(* extractAddress (part_000:246-350): five methods tried in order.  A page  *)
(* gives the texts the selectors of each method find.                       *)

OnlineMarker == <<"o","n","l","i","n","e">>
ConsultorioEn == <<"C","o","n","s","u","l","t","o","r","i","o"," ","e","n"," ">>

NumColegiado == <<"N","u'","m","."," ","C","o","l","e","g","i","a","d","o">>

\* text.split(/\s+\d{5}$/)[0]: text without a final run of \s followed by
\* exactly five digits
stripPostalCode(text) ==
    LET n == Len(text)
        ends == /\ n >= 6
                /\ \A i \in (n - 4)..n : IsDigit(text[i])
                /\ IsSpace(text[n - 5])
        run == {i \in 1..(n - 5) : \A j \in i..(n - 5) : IsSpace(text[j])}
    IN  IF ends THEN SubSeq(text, 1, (CHOOSE i \in run : \A j \in run : i <= j) - 1)
        ELSE text

\* text.match(/\d/)
hasDigit(text) == \E i \in 1..Len(text) : IsDigit(text[i])

\* text.match(/^(Dr\.|Dra\.|Ps\s)/i)
startsWithTitle(text) ==
    \/ startsWithI(text, <<"d","r",".">>)
    \/ startsWithI(text, <<"d","r","a",".">>)
    \/ startsWithI(text, <<"p","s">>) /\ Len(text) >= 3 /\ IsSpace(text[3])

\* text.toLowerCase().includes(k) for one of the keywords
hasKeyword(text, keywords) == \E k \in keywords : includes(toLowerCase(text), k)

\* the keywords of method 4 (part_000:293-298) and of method 5 (part_000:324-329)
ContainerKeywords ==
    { <<"c","a","l","l","e">>, <<"a","v",".">>, <<"a","v","e","n","i","d","a">>,
      <<"j","r">>, <<"u","r","b">>,
      <<"p","s","i","c","o","t","e","r","a","p","i","a"," ","o","n","l","i","n","e">> }
ParagraphKeywords ==
    { <<"c","a","l","l","e">>, <<"a","v",".">>, <<"u","r","b",".">>, <<"j","r">>,
      <<"p","s","i","c","o","t","e","r","a","p","i","a"," ","o","n","l","i","n","e">> }

\* the tests of method 1 on the street span of one block and on its cleaned
\* text (part_000:254-259); rest is what the later blocks give
blockCleaned(streetSpan, cleaned, rest) ==
    IF /\ streetSpan # << >>
       /\ Len(streetSpan) > 10
       /\ cleaned # << >>
       /\ ~includes(cleaned, NumColegiado)
    THEN cleaned
    ELSE rest

\* the body of the loop of method 1 for one street span (part_000:252-260)
blockSpan(streetSpan, rest) ==
    blockCleaned(streetSpan, cleanAddress(stripPostalCode(streetSpan)), rest)

RECURSIVE blockScan(_, _)
\* method 1, from block i on: the cleaned street span of the first
\* [itemprop="address"] block that has one longer than 10 characters, not
\* empty once cleaned and without 'Num. Colegiado' (part_000:250-262)
blockScan(blocks, i) ==
    IF i > Len(blocks) THEN << >>
    ELSE blockSpan(trim(blocks[i]), blockScan(blocks, i + 1))

\* the test of method 4 on the text of one span (part_000:291-303)
containerSpanAccepted(text) ==
    /\ Len(text) > 15
    /\ hasDigit(text)
    /\ hasKeyword(text, ContainerKeywords)
    /\ ~startsWithTitle(text)
    /\ ~includes(text, <<"C","l","i'","n","i","c","a">>)
    /\ ~includes(text, <<"C","e","n","t","r","o">>)
    /\ ~includes(text, <<"H","o","s","p","i","t","a","l">>)

RECURSIVE spanScan(_, _)
\* the inner loop of method 4 over the spans of one container: the first span
\* accepted ends it
spanScan(spans, i) ==
    IF i > Len(spans) THEN [hit |-> FALSE, addr |-> << >>]
    ELSE LET text == trim(spans[i])
         IN  IF containerSpanAccepted(text)
             THEN [hit |-> TRUE, addr |-> cleanAddress(stripPostalCode(text))]
             ELSE spanScan(spans, i + 1)

\* addr after the spans of one container: assigned when a span was accepted
spanResult(found, addr) == IF found.hit THEN found.addr ELSE addr

RECURSIVE containerScan(_, _, _)
RECURSIVE containerNext(_, _, _)
\* if (addr) return false, at the end of the body of the outer loop
\* (part_000:312)
containerNext(containers, i, now) ==
    IF now # << >> THEN now ELSE containerScan(containers, i + 1, now)

\* the outer loop of method 4: it ends after the first container that leaves
\* addr non-empty (part_000:286-311)
containerScan(containers, i, addr) ==
    IF i > Len(containers) THEN addr
    ELSE containerNext(containers, i, spanResult(spanScan(containers[i], 1), addr))

RECURSIVE paragraphScan(_, _)
\* method 5, from paragraph i on (part_000:318-334)
paragraphScan(paragraphs, i) ==
    IF i > Len(paragraphs) THEN << >>
    ELSE LET text == trim(paragraphs[i])
         IN  IF /\ text # << >>
                /\ Len(text) > 15
                /\ hasDigit(text)
                /\ hasKeyword(text, ParagraphKeywords)
                /\ ~startsWithTitle(text)
             THEN cleanAddress(stripPostalCode(text))
             ELSE paragraphScan(paragraphs, i + 1)

\* if (address) return address, after methods 1, 4 and 5
returnedIfTruthy(addr) == [returned |-> addr # << >>, addr |-> addr]

\* method k on a page: whether extractAddress returns from it, and with what
addressMethod(doc, k) ==
    CASE k = 1 -> returnedIfTruthy(blockScan(doc.addressBlocks, 1))
      [] k = 2 ->
           LET text == trim(doc.streetAddress.text)
           IN  IF doc.streetAddress.found /\ text # << >> /\ Len(text) > 10
               THEN [returned |-> TRUE, addr |-> cleanAddress(stripPostalCode(text))]
               ELSE [returned |-> FALSE, addr |-> << >>]
      [] k = 3 ->
           IF doc.metaStreet # << >> /\ Len(doc.metaStreet) > 5
           THEN [returned |-> TRUE, addr |-> cleanAddress(doc.metaStreet)]
           ELSE [returned |-> FALSE, addr |-> << >>]
      [] k = 4 -> returnedIfTruthy(containerScan(doc.containers, 1, << >>))
      [] k = 5 -> returnedIfTruthy(paragraphScan(doc.paragraphs, 1))

\* what a method returned, or what the later methods give
methodOrLater(method, later) == IF method.returned THEN method.addr ELSE later

RECURSIVE extractAddressFrom(_, _)
\* extractAddress from method k on; the empty string stands for null too
\* (the caller tests the value with ||)
extractAddressFrom(doc, k) ==
    IF k > 5 THEN << >>
    ELSE methodOrLater(addressMethod(doc, k), extractAddressFrom(doc, k + 1))

extractAddress(doc) == extractAddressFrom(doc, 1)

\* USE_REAL_AVAILABILITY is unset in the runs modelled (part_000:59)
useRealAvailability == FALSE

\* the answer of the slots request when it is not issued
NoAnswer == [failed |-> TRUE, items |-> << >>]

\* the time value of an Invalid Date (NaN); the instants of the model are
\* never negative
InvalidDate == 0 - 1

\* new Date(slot.start): the instant a date text denotes, an Invalid Date
\* for a missing field or any other text
newDate(start) == IF start.isDate THEN start.instant ELSE InvalidDate

\* endAt.setHours(startAt.getHours() + 1) on a copy of startAt; an Invalid
\* Date stays invalid
plusOneHour(startAt) == IF startAt = InvalidDate THEN InvalidDate ELSE startAt + 60

\* fetchAvailability on the answer of the slots request: a failed request
\* or an answer that cannot be read gives no slot; a slot of _items is kept
\* when it is not booked and has a booking_url
fetchAvailability(answer) ==
    IF answer.failed THEN << >>
    ELSE LET kept == SelectSeq(answer.items,
                               LAMBDA slot : ~slot.booked /\ slot.booking_url # "")
         IN  [i \in 1..Len(kept) |->
                 [startAt |-> newDate(kept[i].start),
                  endAt |-> plusOneHour(newDate(kept[i].start)),
                  modality |-> "in_person"]]

\* extractAddress(...) || `Consultorio en ${city}` (part_000:195)
addressOrDefault(found, city) == IF found # << >> THEN found ELSE ConsultorioEn \o city

\* the availability of a profile (part_000:203-212)
availabilityOf(isOnline, dow, useReal, addressId, answer) ==
    IF useReal /\ addressId # ""
    THEN LET fetched == fetchAvailability(answer)
         IN  IF Len(fetched) = 0
             THEN generateMockAvailability(isOnline, dow)
             ELSE fetched
    ELSE generateMockAvailability(isOnline, dow)

\* every profile gets the synthesized slots, whatever the slots request gave
scrapeDoctorProfileMockOnly(result, doc, dow, useReal, answer) ==
    IF doc = Null THEN Null
    ELSE LET fullName == cleanName(result.doctorName)
             address == addressOrDefault(extractAddress(doc.address), result.city)
             treatments == extractTreatments(doc)
             finalTreatments == IF Len(treatments) > 0 THEN treatments
                                ELSE generateMockTreatments(result.specialty)
             isOnline == includes(toLowerCase(address), OnlineMarker)
         IN  [fullName |-> fullName,
              specialty |-> result.specialty,
              city |-> result.city,
              address |-> address,
              profileUrl |-> result.doctorUrl,
              treatments |-> finalTreatments,
              availability |-> generateMockAvailability(isOnline, dow)]

\* scrapeDoctorProfile: Null when the profile request fails; useReal is
\* this.useRealAvailability, answer the answer of the slots request
scrapeDoctorProfile(result, doc, dow, useReal, answer) ==
    IF doc = Null THEN Null
    ELSE LET fullName == cleanName(result.doctorName)
             address == addressOrDefault(extractAddress(doc.address), result.city)
             treatments == extractTreatments(doc)
             finalTreatments == IF Len(treatments) > 0 THEN treatments
                                ELSE generateMockTreatments(result.specialty)
             isOnline == includes(toLowerCase(address), OnlineMarker)
         IN  [fullName |-> fullName,
              specialty |-> result.specialty,
              city |-> result.city,
              address |-> address,
              profileUrl |-> result.doctorUrl,
              treatments |-> finalTreatments,
              availability |->
                  availabilityOf(isOnline, dow, useReal, result.addressId, answer)]

----------------------------------------------------------------------------
(* The site, as the crawl sees it.                                          *)

\* (process.env.TARGET_CITIES).split(','), trimmed
cities == << <<"L","i","m","a">>, <<"C","u","s","c","o">> >>

\* one parsed result item of a search page (parseSearchResults keeps an item
\* only when doctorId, doctorName and doctorUrl are all non-empty)
Card(url, name, specialty, city) ==
    [doctorId |-> url, doctorName |-> name, doctorUrl |-> url, addressId |-> "",
     specialty |-> specialty, city |-> city]

Cardiologo == <<"C","a","r","d","i","o","l","o","g","o">>
General == <<"G","e","n","e","r","a","l">>

Cards(city) ==
    << Card("u1", <<"D","r","."," ","A","n","a"," ","L","i">>, Cardiologo, city),
       Card("u2", <<"B","o"," ","X","u">>, General, city),
       Card("u3", <<"C","y"," ","D","i">>, Cardiologo, city),
       Card("u4", <<"H","O","S","P","I","T","A","L"," ","X">>, General, city) >>

\* what parseSearchResults can return for one fetched page
PageResults(city) ==
    { << >>,
      << Cards(city)[1], Cards(city)[2] >>,
      << Cards(city)[3], Cards(city)[4] >> }

\* a profile page without any of the nodes the address methods look for
NoAddressNodes ==
    [addressBlocks |-> << >>,
     streetAddress |-> [found |-> FALSE, text |-> << >>],
     metaStreet |-> << >>,
     containers |-> << >>,
     paragraphs |-> << >>]

\* the profile document behind a profile URL
ProfilePage(url) ==
    CASE url = "u1" ->
           [serviceItems |-> << <<"C","o","n","s","u","l","t","a">>,
                                <<"C","O","N","S","U","L","T","A">>,
                                <<" ","E","c","o"," ">> >>,
            headings |-> << >>,
            address |-> [NoAddressNodes EXCEPT
                           !.metaStreet = <<"A","v","."," ","S","o","l"," ","1","2","3",",",
                                            " ","L","i","m","a">>]]
      [] url = "u3" ->
           [serviceItems |-> << >>,
            headings |-> << <<"E","c","o">> >>,
            address |-> [NoAddressNodes EXCEPT
                           !.paragraphs = << <<"P","s","i","c","o","t","e","r","a","p","i","a",
                                               " ","o","n","l","i","n","e"," ","1">> >>]]
      [] OTHER ->
           [serviceItems |-> << >>, headings |-> << >>, address |-> NoAddressNodes]

----------------------------------------------------------------------------
(* The scraper that crawls one listing per (specialty, city)                *)
(* (src/unnamed/part_001): card parsing, validator, synthesized services.   *)

AsciiUpper == {UpperChars[i] : i \in 1..26}
AsciiLower == {LowerChars[i] : i \in 1..26}

\* /^[A-Z][a-z]+ [A-Z][a-z]+/ (part_001:207)
matchesPersonName(s) ==
    \E k \in 2..Len(s) :
        /\ s[1] \in AsciiUpper
        /\ \A j \in 2..k : s[j] \in AsciiLower
        /\ k + 3 <= Len(s)
        /\ s[k + 1] = " "
        /\ s[k + 2] \in AsciiUpper
        /\ s[k + 3] \in AsciiLower

\* /^(Dr\.|Dra\.|Ps\.|Lic\.|Mg\.)/i (part_001:207)
LinkTitles == << <<"d","r",".">>, <<"d","r","a",".">>, <<"p","s",".">>, <<"l","i","c",".">>, <<"m","g",".">> >>
\* /^(Dr\.|Dra\.|Ps\.|Lic\.)/i (part_001:215)
HeadingTitles == << <<"d","r",".">>, <<"d","r","a",".">>, <<"p","s",".">>, <<"l","i","c",".">> >>
\* the alternatives of /^(Dr\.|Dra\.|Ps\.?|Nut\.|Odont\.|Lic\.|Mg\.|Ph\.D\.)\s*/gi
CardTitlePrefixes == << <<"d","r",".">>,
                       <<"d","r","a",".">>,
                       <<"p","s",".">>,
                       <<"p","s">>,
                       <<"n","u","t",".">>,
                       <<"o","d","o","n","t",".">>,
                       <<"l","i","c",".">>,
                       <<"m","g",".">>,
                       <<"p","h",".","d",".">> >>

hasTitle(s, titles) == \E k \in 1..Len(titles) : startsWithI(s, titles[k])

\* part_001:355-363
treatmentsBySpecialty ==
  << [key |-> <<"c","a","r","d","i","o">>,
      value |-> << <<"C","o","n","s","u","l","t","a"," ","c","a","r","d","i","o","l","o'","g","i","c","a">>,
                   <<"E","l","e","c","t","r","o","c","a","r","d","i","o","g","r","a","m","a">>,
                   <<"E","c","o","c","a","r","d","i","o","g","r","a","m","a">>,
                   <<"H","o","l","t","e","r">> >>],
     [key |-> <<"d","e","r","m","a">>,
      value |-> << <<"C","o","n","s","u","l","t","a"," ","d","e","r","m","a","t","o","l","o'","g","i","c","a">>,
                   <<"T","r","a","t","a","m","i","e","n","t","o"," ","a","c","n","e'">>,
                   <<"P","e","e","l","i","n","g">>,
                   <<"C","r","i","o","c","i","r","u","g","i'","a">> >>],
     [key |-> <<"p","e","d","i","a","t","r">>,
      value |-> << <<"C","o","n","s","u","l","t","a"," ","p","e","d","i","a'","t","r","i","c","a">>,
                   <<"C","o","n","t","r","o","l"," ","n","i","n~","o"," ","s","a","n","o">>,
                   <<"V","a","c","u","n","a","c","i","o'","n">> >>],
     [key |-> <<"p","s","i","c","o">>,
      value |-> << <<"T","e","r","a","p","i","a"," ","i","n","d","i","v","i","d","u","a","l">>,
                   <<"T","e","r","a","p","i","a"," ","p","a","r","e","j","a">>,
                   <<"E","v","a","l","u","a","c","i","o'","n"," ","p","s","i","c","o","l","o'","g","i","c","a">> >>],
     [key |-> <<"p","s","i","q","u","i","a","t","r">>,
      value |-> << <<"C","o","n","s","u","l","t","a"," ","p","s","i","q","u","i","a'","t","r","i","c","a">>,
                   <<"E","v","a","l","u","a","c","i","o'","n">>,
                   <<"S","e","g","u","i","m","i","e","n","t","o">> >>],
     [key |-> <<"d","e","n","t">>,
      value |-> << <<"L","i","m","p","i","e","z","a"," ","d","e","n","t","a","l">>,
                   <<"B","l","a","n","q","u","e","a","m","i","e","n","t","o">>,
                   <<"O","r","t","o","d","o","n","c","i","a">> >>],
     [key |-> <<"n","u","t","r","i">>,
      value |-> << <<"C","o","n","s","u","l","t","a"," ","n","u","t","r","i","c","i","o","n","a","l">>,
                   <<"P","l","a","n"," ","a","l","i","m","e","n","t","i","c","i","o">>,
                   <<"S","e","g","u","i","m","i","e","n","t","o">> >>] >>

\* part_001:290-294
clinicKeywords ==
  << <<"c","l","i'","n","i","c","a">>,
     <<"c","l","i","n","i","c","a">>,
     <<"c","e","n","t","r","o">>,
     <<"h","o","s","p","i","t","a","l">>,
     <<"p","o","l","i","c","l","i'","n","i","c","o">>,
     <<"p","o","l","i","c","l","i","n","i","c","o">>,
     <<"c","o","n","s","u","l","t","o","r","i","o">>,
     <<"s","e","r","v","i","c","i","o","s"," ","m","e'","d","i","c","o","s">>,
     <<"h","o","l","o","d","o","c">>,
     <<"a","v","a","n","s","a","l","u","d">>,
     <<"c","e","n","t","e","n","a","r","i","o">>,
     <<"i","n","t","e","r","n","a","c","i","o","n","a","l">>,
     <<"s","t","e","l","l","a"," ","m","a","r","i","s">>,
     <<"c","e","r","e","b","r","o">>,
     <<"s","a","n"," ","p","a","b","l","o">>,
     <<"d","i","g","e","s","t","a","l","u","d">> >>

\* the name of a card, by priority (part_001:193-220); the empty string when
\* no source gives one
cardName(card) ==
    IF trim(card.itemName) # << >> THEN trim(card.itemName)
    ELSE IF card.dataName # << >> THEN card.dataName
    ELSE IF /\ trim(card.linkText) # << >>
            /\ \/ hasTitle(trim(card.linkText), LinkTitles)
               \/ matchesPersonName(trim(card.linkText))
         THEN trim(card.linkText)
    ELSE IF /\ trim(card.heading) # << >>
            /\ hasTitle(trim(card.heading), HeadingTitles)
         THEN trim(card.heading)
    ELSE << >>

\* part_001:354-381 (the random price and duration are not modelled)
generateMockTreatmentsBySpecialty(specialty) ==
    LET normalized == toLowerCase(specialty)
        hits == {k \in 1..Len(treatmentsBySpecialty) :
                    includes(normalized, treatmentsBySpecialty[k].key)}
        names == IF hits = {} THEN << ConsultaGeneral >>
                 ELSE treatmentsBySpecialty[CHOOSE k \in hits :
                                               \A j \in hits : k <= j].value
    IN  [i \in 1..Len(names) |-> [name |-> names[i]]]

Clinica == <<"c","l","i'","n","i","c","a">>
Centro == <<"c","e","n","t","r","o">>

\* parseDoctorCard (part_001:173-283); card.parts is the description split at
\* commas, trimmed, without its empty parts; card.href is an absolute URL
parseDoctorCard(card, defaultSpecialty, defaultCity, dow) ==
    IF card.href = "" THEN Null
    ELSE IF cardName(card) = << >> THEN Null
    ELSE LET fullName == stripTitle(cardName(card), CardTitlePrefixes)
             parts == card.parts
             extractedSpecialty ==
                 IF /\ Len(parts) >= 1
                    /\ ~includes(toLowerCase(parts[1]), Clinica)
                    /\ ~includes(toLowerCase(parts[1]), Centro)
                 THEN parts[1] ELSE defaultSpecialty
             extractedCity == IF Len(parts) >= 2 THEN parts[2] ELSE defaultCity
         IN  [fullName |-> fullName,
              specialty |-> extractedSpecialty,
              city |-> extractedCity,
              address |-> ConsultorioEn \o extractedCity,
              profileUrl |-> card.href,
              treatments |-> generateMockTreatmentsBySpecialty(extractedSpecialty),
              availability |-> generateMockAvailability(FALSE, dow)]

\* the validator as an allowlist: nothing but a person-name pattern is accepted
isValidDoctorAllowlist(doctor) ==
    LET nameLower == toLowerCase(doctor.fullName)
    IN  /\ \A k \in 1..Len(clinicKeywords) : ~includes(nameLower, clinicKeywords[k])
        /\ ~(/\ doctor.fullName = toUpperCase(doctor.fullName)
             /\ includes(doctor.fullName, <<" ">>))
        /\ doctor.fullName # doctor.specialty
        /\ matchesPersonName(doctor.fullName)

\* isValidDoctor of part_001:286-320
isValidDoctorBySpecialty(doctor) ==
    LET nameLower == toLowerCase(doctor.fullName)
    IN  /\ \A k \in 1..Len(clinicKeywords) : ~includes(nameLower, clinicKeywords[k])
        /\ ~(/\ doctor.fullName = toUpperCase(doctor.fullName)
             /\ includes(doctor.fullName, <<" ">>))
        /\ doctor.fullName # doctor.specialty

\* (process.env.TARGET_SPECIALTIES).split(','), trimmed (part_001:42)
specialties == << <<"c","a","r","d","i","o","l","o","g","i","a">>,
                  <<"d","e","r","m","a","t","o","l","o","g","i","a">> >>

\* the scopes of the specialty crawl, specialty-major (part_001:51-52)
scopes ==
    [k \in 1..(Len(specialties) * Len(cities)) |->
        [specialty |-> specialties[((k - 1) \div Len(cities)) + 1],
         city |-> cities[((k - 1) % Len(cities)) + 1]]]

ListingCard(href, itemName, linkText, parts) ==
    [href |-> href, itemName |-> itemName, dataName |-> << >>,
     linkText |-> linkText, heading |-> << >>, parts |-> parts]

\* the cards a listing can hold
ListingCards ==
    << ListingCard("s1", <<"D","r","a","."," ","E","v","a"," ","P","a","z">>, << >>, << >>),
       ListingCard("s1", << >>, <<"E","v","a"," ","P","a","z">>, << >>),
       ListingCard("s2", << >>, <<"I","v","o"," ","G","i","l">>,
                   << <<"C","e","n","t","r","o"," ","S","u","r">>, <<"A","r","e","q","u","i","p","a">> >>),
       ListingCard("s3", <<"C","e","n","t","r","o"," ","N","o","r","t","e">>, << >>, << >>),
       ListingCard("s4", <<"L","i","c","."," ","U","r","i"," ","P","o">>, << >>,
                   << <<"N","u","t","r","i","c","i","o","n">> >>),
       ListingCard("", <<"N","o"," ","L","i","n","k">>, << >>, << >>),
       ListingCard("s5", <<"D","r",".">>, << >>, << >>) >>

\* what a listing request can answer: no card or the cards above
Listings == { << >>, ListingCards }

\* the cards of the homepage (part_001:335)
HomeCards == << ListingCards[1], ListingCards[5] >>

----------------------------------------------------------------------------
(* ErrorTracker (the timestamp and the details of a report are not kept).   *)

\* an addError that puts the new record first
addErrorFirst(errs, step, message) ==
    << [step |-> step, message |-> message] >> \o errs

\* error-tracker.ts:11-18
addError(errs, step, message) == Append(errs, [step |-> step, message |-> message])

getErrors(errs) == errs

hasErrors(errs) == Len(errs) > 0

getErrorCount(errs) == Len(errs)

getErrorsByStep(errs, step) == SelectSeq(errs, LAMBDA e : e.step = step)

clear(errs) == << >>

Stages == {"INSERT_DOCTORS", "INSERT_TREATMENTS", "INSERT_AVAILABILITY",
           "INSERT_PATIENTS", "INSERT_APPOINTMENTS"}

----------------------------------------------------------------------------
(* main(): what it does with the failure log.                               *)

\* index.ts:71-76: the warning depends on the log, process.exit(0) does not
completionWarns(errs) == hasErrors(errs)

\* a main() that reports the recorded failures in its exit status
completionExitOnErrors(errs) == IF hasErrors(errs) THEN 1 ELSE 0

completionExit(errs) == 0

\* index.ts:78-83
fatalExit(errs) == 1

\* logs another run of the same inputs could hold at the same point
AltLogs(errs) ==
    { << >>, errs, Append(errs, [step |-> "OTHER", message |-> << "other" >>]) }

----------------------------------------------------------------------------
(* Variable groups.                                                         *)

runVars == << today, variant, arg, ret, wait >>
mainVars == << pc, exitCode, steps, warned, exitCodeB, stepsB, warnedB >>
trackerVars == << errors, addCalls >>
storeVars == << db, attempts >>
crawlVars == << cityIdx, page, searchResults, resIdx, processed, doctors,
                allDoctors, scrapedUrls, scrapeOutcome, pageLog, candidateLog,
                pageFailures >>
insertVars == << insIdx, insertedDoctors, patientsData, insertedPatients,
                 appointmentsData >>

Tables == {"doctors", "treatments", "availability", "patients", "appointments"}

\* the days of the week the pipeline is run on in the model
RunDays == {1}

\* the state of a fresh process at position p, the store holding `existing`
\* doctors, the build using scraper v
Start(p, existing, v) ==
    /\ pc = p
    /\ exitCode = -1
    /\ steps = << >>
    /\ warned = FALSE
    /\ exitCodeB = {-1}
    /\ stepsB = {<< >>}
    /\ warnedB = {FALSE}
    /\ errors = << >>
    /\ addCalls = 0
    /\ db = [t \in Tables |-> IF t = "doctors" THEN existing ELSE 0]
    /\ attempts = [t \in Tables |-> 0]
    /\ faults = 0
    /\ today \in RunDays
    /\ variant = v
    /\ cityIdx = 0
    /\ page = 0
    /\ searchResults = << >>
    /\ resIdx = 0
    /\ processed = 0
    /\ doctors = << >>
    /\ allDoctors = << >>
    /\ scrapedUrls = {}
    /\ scrapeOutcome = "none"
    /\ pageLog = << >>
    /\ candidateLog = << >>
    /\ pageFailures = {}
    /\ insIdx = 0
    /\ insertedDoctors = << >>
    /\ patientsData = << >>
    /\ insertedPatients = << >>
    /\ appointmentsData = << >>

\* no function is called on its own during a run of the pipeline
NoCall == arg = Null /\ ret = Null /\ wait = Null

Init ==
    /\ \E existing \in {0, 1}, v \in {"city", "specialty"} : Start("connect", existing, v)
    /\ NoCall

\* a collaborator (the store, the site, the file system) may still fail
CanFail == faults < MaxFaults

\* main() starts a pipeline step
Begin(step, next) ==
    /\ pc' = next
    /\ steps' = Append(steps, step)
    /\ stepsB' = {Append(s, step) : s \in stepsB}
    /\ UNCHANGED << exitCode, warned, exitCodeB, warnedB >>

\* the catch block of main(): index.ts:78-83
Fatal ==
    /\ pc' = "exited"
    /\ exitCode' = fatalExit(errors)
    /\ exitCodeB' = {fatalExit(l) : l \in AltLogs(errors)}
    /\ UNCHANGED << steps, warned, stepsB, warnedB >>

\* index.ts:19-23: WaitForDb.wait and Database.connect
Connect ==
    /\ pc = "connect"
    /\ \/ /\ pc' = "count"
          /\ UNCHANGED << exitCode, steps, warned, exitCodeB, stepsB, warnedB, faults >>
       \/ /\ CanFail
          /\ faults' = faults + 1
          /\ Fatal
    /\ UNCHANGED << trackerVars, storeVars, crawlVars, insertVars, runVars >>

\* a run that migrates whatever the store holds
skipsMigrationNever(existingDoctors) == FALSE

\* index.ts:29: if (existingDoctors > 0)
skipsMigration(existingDoctors) == existingDoctors > 0

\* index.ts:27-46: the count of existing doctors decides whether the run migrates
CountDoctors ==
    /\ pc = "count"
    /\ \/ /\ skipsMigration(db.doctors)
          /\ pc' = "skip"
          /\ UNCHANGED << exitCode, steps, warned, exitCodeB, stepsB, warnedB,
                          faults, trackerVars, crawlVars >>
       \/ /\ ~skipsMigration(db.doctors)
          /\ errors' = clear(errors)
          /\ addCalls' = 0
          /\ Begin("crawl", IF variant = "city" THEN "page" ELSE "listing")
          /\ cityIdx' = 1
          /\ page' = 1
          /\ resIdx' = 1
          /\ UNCHANGED << faults, searchResults, processed, doctors,
                          allDoctors, scrapedUrls, scrapeOutcome, pageLog,
                          candidateLog, pageFailures >>
       \/ /\ CanFail
          /\ faults' = faults + 1
          /\ Fatal
          /\ UNCHANGED << trackerVars, crawlVars >>
    /\ UNCHANGED << storeVars, insertVars, runVars >>

----------------------------------------------------------------------------
(* DoctoraliaScraper.scrapeDoctors and scrapeDoctorsByCity.                 *)

\* a page loop that goes on after a page without results
pageLoopNeverBreaks(pageResults) == FALSE

\* part_000:109-112: a fetched page without results ends the page loop
pageLoopBreaks(pageResults) == Len(pageResults) = 0

\* a failed page that ends the page loop of its scope
afterFailedPageAborts(p) == maxPages + 1

\* part_000:117-119: the catch of a failed page falls through to page++
afterFailedPage(p) == p + 1

\* part_000:92: the loop condition
pageLoopRuns(p) == p <= maxPages

\* a candidate loop without its cap
capNeverReached(n) == FALSE

\* part_000:124, part_001:151
capReached(n) == n >= MaxDoctorsPerCity

\* a crawl that forgets the URLs it accepted
neverScraped(urls, url) == FALSE

\* part_000:125, part_001:156
alreadyScraped(urls, url) == url \in urls

\* a scrapeDoctors that returns its empty list
scrapeReturnsEmpty(all) == FALSE

\* part_000:74-76, part_001:59-62
scrapeThrows(all) == Len(all) = 0

\* one iteration of the page loop: the request, the parse, the break test
FetchPage ==
    /\ pc = "page"
    /\ variant = "city"
    /\ \/ \E pageResults \in PageResults(cities[cityIdx]) :
            LET stop == pageLoopBreaks(pageResults)
                next == IF stop THEN page ELSE page + 1
            IN  /\ searchResults' = IF stop THEN searchResults
                                    ELSE searchResults \o pageResults
                /\ pageLog' = Append(pageLog,
                                [page |-> page, count |-> Len(pageResults),
                                 outcome |-> IF Len(pageResults) = 0
                                             THEN "empty" ELSE "results"])
                /\ page' = next
                /\ pc' = IF stop \/ ~pageLoopRuns(next) THEN "profile" ELSE "page"
                /\ UNCHANGED << faults, pageFailures >>
       \/ /\ CanFail
          /\ faults' = faults + 1
          /\ pageLog' = Append(pageLog,
                          [page |-> page, count |-> 0, outcome |-> "fail"])
          /\ pageFailures' = pageFailures \cup {[city |-> cityIdx, page |-> page]}
          /\ page' = afterFailedPage(page)
          /\ pc' = IF pageLoopRuns(afterFailedPage(page)) THEN "page" ELSE "profile"
          /\ UNCHANGED searchResults
    /\ UNCHANGED << exitCode, steps, warned, exitCodeB, stepsB, warnedB,
                    trackerVars, storeVars, insertVars, runVars, cityIdx, doctors,
                    allDoctors, scrapedUrls, scrapeOutcome, candidateLog,
                    resIdx, processed >>

\* one iteration of the candidate loop (part_000:123-140)
ProcessCandidate ==
    /\ pc = "profile"
    /\ resIdx <= Len(searchResults)
    /\ ~capReached(processed)
    /\ LET result == searchResults[resIdx]
       IN  \/ /\ alreadyScraped(scrapedUrls, result.doctorUrl)
              /\ candidateLog' = Append(candidateLog,
                                   [url |-> result.doctorUrl,
                                    outcome |-> "duplicate", before |-> processed,
                                    fetched |-> FALSE, extracted |-> FALSE,
                                    validated |-> FALSE])
              /\ UNCHANGED << processed, doctors, scrapedUrls, faults >>
           \/ /\ ~alreadyScraped(scrapedUrls, result.doctorUrl)
              /\ \E doc \in {ProfilePage(result.doctorUrl)}
                              \cup (IF CanFail THEN {Null} ELSE {}) :
                   LET doctor == scrapeDoctorProfile(result, doc, today,
                                                    useRealAvailability, NoAnswer)
                       accept == IF doctor = Null THEN FALSE ELSE isValidDoctor(doctor)
                   IN  /\ faults' = IF doc = Null THEN faults + 1 ELSE faults
                       /\ candidateLog' = Append(candidateLog,
                                          [url |-> result.doctorUrl,
                                           outcome |-> IF accept THEN "accepted"
                                                       ELSE IF doctor = Null
                                                       THEN "failed"
                                                       ELSE "discarded",
                                           before |-> processed,
                                           fetched |-> TRUE,
                                           extracted |-> doc # Null,
                                           validated |-> doctor # Null])
                       /\ scrapedUrls' = IF accept THEN scrapedUrls \cup {result.doctorUrl}
                                         ELSE scrapedUrls
                       /\ doctors' = IF accept THEN Append(doctors, doctor) ELSE doctors
                       /\ processed' = IF accept THEN processed + 1 ELSE processed
    /\ resIdx' = resIdx + 1
    /\ UNCHANGED << mainVars, trackerVars, storeVars, insertVars, runVars, cityIdx,
                    page, searchResults, allDoctors, scrapeOutcome, pageLog,
                    pageFailures >>

\* the answers of a request that make axios.get throw: the status of the
\* response, 0 when there is none (timeout, connection refused)
ErrorStatuses == {404, 500, 0}

\* a catch that goes to the homepage after any error
triesHomepageAlways(status) == TRUE

\* error.response?.status === 404 (part_001:133)
triesHomepage(status) == status = 404

\* the request of one (specialty, city) listing and, after a 404, of the
\* homepage (part_001:72-140, 322-343); the failed requests of one scope count
\* as one failure of the site
FetchListing ==
    /\ pc = "listing"
    /\ variant = "specialty"
    /\ \/ \E cards \in Listings :
            /\ searchResults' = cards
            /\ pageLog' = << [page |-> 1, count |-> Len(cards),
                              outcome |-> IF Len(cards) = 0 THEN "empty"
                                          ELSE "results"] >>
            /\ UNCHANGED << faults, pageFailures >>
       \/ /\ CanFail
          /\ faults' = faults + 1
          /\ \E status \in ErrorStatuses :
                LET direct == [page |-> 1, count |-> 0,
                               outcome |-> IF status = 404 THEN "notfound" ELSE "fail"]
                IN  IF triesHomepage(status)
                    THEN \/ /\ searchResults' = HomeCards
                            /\ pageLog' = << direct,
                                             [page |-> 0, count |-> Len(HomeCards),
                                              outcome |-> "results"] >>
                         \/ /\ searchResults' = << >>
                            /\ pageLog' = << direct,
                                             [page |-> 0, count |-> 0,
                                              outcome |-> "fail"] >>
                    ELSE /\ searchResults' = << >>
                         /\ pageLog' = << direct >>
          /\ pageFailures' = pageFailures \cup {[city |-> cityIdx, page |-> 1]}
    /\ pc' = "cards"
    /\ UNCHANGED << exitCode, steps, warned, exitCodeB, stepsB, warnedB,
                    trackerVars, storeVars, insertVars, runVars, cityIdx, page,
                    doctors, allDoctors, scrapedUrls, scrapeOutcome, candidateLog,
                    resIdx, processed >>

\* one iteration of the loop of parseStandardCards (part_001:151-170)
ParseCard ==
    /\ pc = "cards"
    /\ resIdx <= Len(searchResults)
    /\ ~capReached(processed)
    /\ LET scope == scopes[cityIdx]
           doctor == parseDoctorCard(searchResults[resIdx], trim(scope.specialty),
                                     trim(scope.city), today)
           outcome ==
               IF doctor = Null THEN "unparsed"
               ELSE IF alreadyScraped(scrapedUrls, doctor.profileUrl) THEN "duplicate"
               ELSE IF isValidDoctorBySpecialty(doctor) THEN "accepted"
               ELSE "discarded"
           accept == outcome = "accepted"
       IN  /\ candidateLog' = Append(candidateLog,
                                [url |-> searchResults[resIdx].href,
                                 outcome |-> outcome, before |-> processed,
                                 fetched |-> FALSE,
                                 extracted |-> TRUE,
                                 validated |-> outcome \in {"accepted", "discarded"}])
           /\ scrapedUrls' = IF accept THEN scrapedUrls \cup {doctor.profileUrl}
                             ELSE scrapedUrls
           /\ doctors' = IF accept THEN Append(doctors, doctor) ELSE doctors
           /\ processed' = IF accept THEN processed + 1 ELSE processed
    /\ resIdx' = resIdx + 1
    /\ UNCHANGED << mainVars, trackerVars, storeVars, insertVars, runVars, cityIdx,
                    page, searchResults, allDoctors, scrapeOutcome, pageLog,
                    pageFailures, faults >>

\* the number of scopes scrapeDoctors loops over (part_000:68, part_001:51-52)
numScopes == IF variant = "city" THEN Len(cities) ELSE Len(scopes)

\* the candidate loop is over: the scope's crawl returns, scrapeDoctors pushes
\* its records and goes to the next scope (part_000:68-72, 142; part_001:54-55)
EndScope ==
    /\ pc \in {"profile", "cards"}
    /\ resIdx > Len(searchResults) \/ capReached(processed)
    /\ allDoctors' = allDoctors \o doctors
    /\ doctors' = << >>
    /\ IF cityIdx < numScopes
       THEN /\ cityIdx' = cityIdx + 1
            /\ page' = 1
            /\ searchResults' = << >>
            /\ resIdx' = 1
            /\ processed' = 0
            /\ pageLog' = << >>
            /\ candidateLog' = << >>
            /\ pc' = IF variant = "city" THEN "page" ELSE "listing"
       ELSE /\ pc' = "crawled"
            /\ UNCHANGED << cityIdx, page, searchResults, resIdx, processed,
                            pageLog, candidateLog >>
    /\ UNCHANGED << exitCode, steps, warned, exitCodeB, stepsB, warnedB,
                    trackerVars, storeVars, insertVars, runVars, faults,
                    scrapedUrls, scrapeOutcome, pageFailures >>

\* part_000:74-85 and index.ts:46-53 (a failure of saveJsonFiles is caught
\* there and changes nothing); the locals of the last scope are gone
FinishCrawl ==
    /\ pc = "crawled"
    /\ IF scrapeThrows(allDoctors)
       THEN /\ scrapeOutcome' = "raised"
            /\ Fatal
            /\ UNCHANGED insIdx
       ELSE /\ scrapeOutcome' = "returned"
            /\ IF Len(allDoctors) = 0
               THEN Fatal /\ UNCHANGED insIdx
               ELSE Begin("insert_doctors", "insert_doctors") /\ insIdx' = 1
    /\ searchResults' = << >>
    /\ resIdx' = 0
    /\ processed' = 0
    /\ pageLog' = << >>
    /\ candidateLog' = << >>
    /\ UNCHANGED << trackerVars, storeVars, runVars, faults, cityIdx, page,
                    doctors, allDoctors, scrapedUrls, pageFailures,
                    insertedDoctors, patientsData, insertedPatients,
                    appointmentsData >>

----------------------------------------------------------------------------
(* The random source: Math.random() in hundredths.                          *)

RandomSamples == {0, 99}

\* Math.floor(Math.random() * n), computed without leaving 32 bits
floorRandom(r, n) == r * (n \div 100) + (r * (n % 100)) \div 100

----------------------------------------------------------------------------
(* MigrationService.                                                        *)

\* the failures of the store that are tried on a list of n creates
FailSets(n) == IF n = 0 THEN {{}} ELSE {{}, {1}, 1..n}

RECURSIVE keepAt(_, _, _)
\* the elements of items whose index is in idxs, in order
keepAt(items, idxs, i) ==
    IF i > Len(items) THEN << >>
    ELSE (IF i \in idxs THEN << items[i] >> ELSE << >>) \o keepAt(items, idxs, i + 1)

RECURSIVE uniqueByName(_, _)
\* the reduce of insertTreatments (part_004:90-94)
uniqueByName(treatments, acc) ==
    IF treatments = << >> THEN acc
    ELSE LET t == Head(treatments)
             exists == \E k \in 1..Len(acc) :
                          toLowerCase(acc[k].name) = toLowerCase(t.name)
         IN  uniqueByName(Tail(treatments), IF exists THEN acc ELSE Append(acc, t))

\* insertTreatments: the creates whose index is in failing are rejected
insertTreatments(doctorId, treatments, failing, rows) ==
    LET unique == uniqueByName(treatments, << >>)
        ok == keepAt(unique, (1..Len(unique)) \ failing, 1)
        ko == keepAt(unique, failing, 1)
    IN  [inserted |-> [k \in 1..Len(ok) |-> [id |-> rows + k]],
         failures |-> [k \in 1..Len(ko) |->
                         [step |-> "INSERT_TREATMENTS",
                          message |-> << "Failed", ko[k].name >>]],
         tried |-> Len(unique)]

\* insertAvailability: the creates whose index is in failing are rejected
insertAvailability(doctorId, availability, failing, rows) ==
    LET ok == keepAt(availability, (1..Len(availability)) \ failing, 1)
        ko == keepAt(availability, failing, 1)
    IN  [inserted |-> [k \in 1..Len(ok) |->
                         [id |-> rows + k, doctor_id |-> doctorId,
                          start_at |-> ok[k].startAt, end_at |-> ok[k].endAt,
                          modality |-> ok[k].modality]],
         failures |-> [k \in 1..Len(ko) |->
                         [step |-> "INSERT_AVAILABILITY",
                          message |-> << "Failed for doctor", doctorId >>]],
         tried |-> Len(availability)]

Cost(failing) == IF failing = {} THEN 0 ELSE 1

RECURSIVE appendAll(_, _)
\* one addError call per report
appendAll(errs, reports) ==
    IF reports = << >> THEN errs
    ELSE appendAll(addError(errs, Head(reports).step, Head(reports).message),
                   Tail(reports))

\* a catch that files the rejected doctor under another stage
insertDoctorsCatchMisfiled(doctor) ==
    << [step |-> "INSERT_TREATMENTS", message |-> << "Failed", doctor.fullName >>] >>

\* the catch of insertDoctors (part_004:78-81): the reports it adds
insertDoctorsCatch(doctor) ==
    << [step |-> "INSERT_DOCTORS", message |-> << "Failed", doctor.fullName >>] >>

\* the catch of insertPatients (part_004:153-156): the reports it adds
insertPatientsCatch(patient) ==
    << [step |-> "INSERT_PATIENTS", message |-> << "Failed", patient.fullName >>] >>

\* one iteration of the loop of insertDoctors (part_004:50-82)
InsertDoctor ==
    /\ pc = "insert_doctors"
    /\ insIdx <= Len(allDoctors)
    /\ LET doctor == allDoctors[insIdx]
       IN  \/ /\ CanFail
              /\ faults' = faults + 1
              /\ errors' = appendAll(errors, insertDoctorsCatch(doctor))
              /\ addCalls' = addCalls + Len(insertDoctorsCatch(doctor))
              /\ attempts' = [attempts EXCEPT !.doctors = @ + 1]
              /\ UNCHANGED << db, insertedDoctors >>
           \/ \E failT \in FailSets(Len(uniqueByName(doctor.treatments, << >>))),
                 failA \in FailSets(Len(doctor.availability)) :
                LET id == db.doctors + 1
                    t == insertTreatments(id, doctor.treatments, failT, db.treatments)
                    a == insertAvailability(id, doctor.availability, failA,
                                            db.availability)
                IN  /\ faults + Cost(failT) + Cost(failA) <= MaxFaults
                    /\ faults' = faults + Cost(failT) + Cost(failA)
                    /\ errors' = appendAll(appendAll(errors, t.failures), a.failures)
                    /\ addCalls' = addCalls + Len(t.failures) + Len(a.failures)
                    /\ attempts' = [attempts EXCEPT !.doctors = @ + 1,
                                                    !.treatments = @ + t.tried,
                                                    !.availability = @ + a.tried]
                    /\ db' = [db EXCEPT !.doctors = @ + 1,
                                        !.treatments = @ + Len(t.inserted),
                                        !.availability = @ + Len(a.inserted)]
                    /\ insertedDoctors' =
                          Append(insertedDoctors,
                                 [id |-> id, treatments |-> t.inserted,
                                  availability |-> a.inserted])
    /\ insIdx' = insIdx + 1
    /\ UNCHANGED << mainVars, crawlVars, runVars, patientsData, insertedPatients,
                    appointmentsData >>

----------------------------------------------------------------------------
(* PatientGenerator.                                                        *)

firstNames ==
    << <<"J","u","a","n">>,
       <<"M","a","r","i'","a">>,
       <<"C","a","r","l","o","s">>,
       <<"A","n","a">>,
       <<"L","u","i","s">>,
       <<"C","a","r","m","e","n">>,
       <<"J","o","s","e'">>,
       <<"R","o","s","a">>,
       <<"M","i","g","u","e","l">>,
       <<"P","a","t","r","i","c","i","a">>,
       <<"P","e","d","r","o">>,
       <<"L","a","u","r","a">>,
       <<"D","i","e","g","o">>,
       <<"S","o","f","i","a">>,
       <<"F","e","r","n","a","n","d","o">> >>

lastNames ==
    << <<"G","a","r","c","i'","a">>,
       <<"R","o","d","r","i'","g","u","e","z">>,
       <<"L","o'","p","e","z">>,
       <<"M","a","r","t","i'","n","e","z">>,
       <<"S","a'","n","c","h","e","z">>,
       <<"P","e'","r","e","z">>,
       <<"G","o'","m","e","z">>,
       <<"F","e","r","n","a'","n","d","e","z">>,
       <<"T","o","r","r","e","s">>,
       <<"R","a","m","i'","r","e","z">>,
       <<"F","l","o","r","e","s">>,
       <<"V","e","g","a">> >>

domains ==
    << <<"g","m","a","i","l",".","c","o","m">>,
       <<"h","o","t","m","a","i","l",".","c","o","m">>,
       <<"y","a","h","o","o",".","c","o","m">>,
       <<"o","u","t","l","o","o","k",".","c","o","m">> >>

\* the patient generate() builds when every draw of the iteration returns r
patientOf(r) ==
    LET firstName == firstNames[floorRandom(r, Len(firstNames)) + 1]
        lastName1 == lastNames[floorRandom(r, Len(lastNames)) + 1]
        lastName2 == lastNames[floorRandom(r, Len(lastNames)) + 1]
    IN  [fullName |-> firstName \o <<" ">> \o lastName1 \o <<" ">> \o lastName2,
         documentNumber |-> floorRandom(r, 90000000) + 10000000,
         phoneNumber |-> << 9, floorRandom(r, 90000000) + 10000000 >>,
         email |-> << toLowerCase(firstName), toLowerCase(lastName1),
                      floorRandom(r, 999),
                      domains[floorRandom(r, Len(domains)) + 1] >>]

\* index.ts:55-58: insertDoctors has returned, generate() builds the patients
GeneratePatients ==
    /\ pc = "insert_doctors"
    /\ insIdx > Len(allDoctors)
    /\ \E rnd \in [1..NumPatients -> RandomSamples] :
          patientsData' = [i \in 1..NumPatients |-> patientOf(rnd[i])]
    /\ Begin("insert_patients", "insert_patients")
    /\ insIdx' = 1
    /\ UNCHANGED << trackerVars, storeVars, crawlVars, runVars, faults,
                    insertedDoctors, insertedPatients, appointmentsData >>

\* one iteration of the loop of insertPatients (part_004:142-157)
InsertPatient ==
    /\ pc = "insert_patients"
    /\ insIdx <= Len(patientsData)
    /\ LET patient == patientsData[insIdx]
       IN  \/ /\ CanFail
              /\ faults' = faults + 1
              /\ errors' = appendAll(errors, insertPatientsCatch(patient))
              /\ addCalls' = addCalls + Len(insertPatientsCatch(patient))
              /\ UNCHANGED << db, insertedPatients >>
           \/ /\ db' = [db EXCEPT !.patients = @ + 1]
              /\ insertedPatients' = Append(insertedPatients, [id |-> db.patients + 1])
              /\ UNCHANGED << faults, trackerVars >>
    /\ attempts' = [attempts EXCEPT !.patients = @ + 1]
    /\ insIdx' = insIdx + 1
    /\ UNCHANGED << mainVars, crawlVars, runVars, insertedDoctors, patientsData,
                    appointmentsData >>

----------------------------------------------------------------------------
(* AppointmentGenerator.                                                    *)

\* the five Math.random() draws of one generateAppointment call, all equal to r
Draws(r) == [availability |-> r, treatment |-> r, patient |-> r, slot |-> r, status |-> r]

\* generateAppointment drawing one slot too many and not testing the end
generateAppointmentOverrun(doctor, patients, r) ==
    LET availability == doctor.availability[floorRandom(r.availability, Len(doctor.availability)) + 1]
        treatment == doctor.treatments[floorRandom(r.treatment, Len(doctor.treatments)) + 1]
        availabilityDuration == availability.end_at - availability.start_at
        maxSlots == availabilityDuration \div SlotMinutes
        randomSlot == floorRandom(r.slot, maxSlots + 1)
        startAt == availability.start_at + randomSlot * SlotMinutes
        endAt == startAt + SlotMinutes
    IN  IF maxSlots <= 0 THEN Null
        ELSE IF Len(patients) = 0 THEN Null
        ELSE [doctorId |-> doctor.id,
              patientId |-> patients[floorRandom(r.patient, Len(patients)) + 1].id,
              treatmentId |-> treatment.id,
              startAt |-> startAt,
              endAt |-> endAt,
              status |-> IF r.status < 70 THEN "scheduled"
                         ELSE IF r.status < 90 THEN "completed" ELSE "cancelled"]

\* index.ts:159-207; r holds what the five draws of the call return; Null
\* stands for a null result and for the TypeError of reading the id of no
\* patient
generateAppointment(doctor, patients, r) ==
    LET availability == doctor.availability[floorRandom(r.availability, Len(doctor.availability)) + 1]
        treatment == doctor.treatments[floorRandom(r.treatment, Len(doctor.treatments)) + 1]
        availabilityDuration == availability.end_at - availability.start_at
        maxSlots == availabilityDuration \div SlotMinutes
        randomSlot == floorRandom(r.slot, maxSlots)
        startAt == availability.start_at + randomSlot * SlotMinutes
        endAt == startAt + SlotMinutes
    IN  IF maxSlots <= 0 THEN Null
        ELSE IF endAt > availability.end_at THEN Null
        ELSE IF Len(patients) = 0 THEN Null
        ELSE [doctorId |-> doctor.id,
              patientId |-> patients[floorRandom(r.patient, Len(patients)) + 1].id,
              treatmentId |-> treatment.id,
              startAt |-> startAt,
              endAt |-> endAt,
              status |-> IF r.status < 70 THEN "scheduled"
                         ELSE IF r.status < 90 THEN "completed" ELSE "cancelled"]

\* as many attempts as the environment allows, whatever the blocks
numAppointmentsUncapped(doctor, perDoctor) == perDoctor

\* index.ts:138-141, perDoctor being this.numAppointmentsPerDoctor
numAppointments(doctor, perDoctor) ==
    IF perDoctor <= Len(doctor.availability) * PerBlock
    THEN perDoctor
    ELSE Len(doctor.availability) * PerBlock

RECURSIVE generate(_, _, _, _, _)
\* the loops of generate, from attempt i of doctor d on; rnd[i] is what the
\* draws of attempt i return, for every doctor, and rnd has one element for
\* each of the this.numAppointmentsPerDoctor attempts
generate(doctorList, patients, rnd, d, i) ==
    IF d > Len(doctorList) THEN << >>
    ELSE LET doctor == doctorList[d]
         IN  IF \/ Len(doctor.availability) = 0
                \/ Len(doctor.treatments) = 0
                \/ i > numAppointments(doctor, Len(rnd))
             THEN generate(doctorList, patients, rnd, d + 1, 1)
             ELSE LET appointment == generateAppointment(doctor, patients, rnd[i])
                  IN  (IF appointment = Null THEN << >> ELSE << appointment >>)
                      \o generate(doctorList, patients, rnd, d, i + 1)

\* index.ts:60-63: insertPatients has returned, generate() builds the appointments
GenerateAppointments ==
    /\ pc = "insert_patients"
    /\ insIdx > Len(patientsData)
    /\ \E rnd \in [1..NumAppointmentsPerDoctor -> RandomSamples] :
          appointmentsData' = generate(insertedDoctors, insertedPatients,
                                       [i \in DOMAIN rnd |-> Draws(rnd[i])], 1, 1)
    /\ Begin("appointments", "insert_appointments")
    /\ insIdx' = 1
    /\ UNCHANGED << trackerVars, storeVars, crawlVars, runVars, faults,
                    insertedDoctors, patientsData, insertedPatients >>

\* insertAppointments: the creates whose index is in failing are rejected
\* (part_004:163-186)
insertAppointments(appointments, failing) ==
    LET ko == keepAt(appointments, failing, 1)
    IN  [inserted |-> Len(appointments) - Len(ko),
         failures |-> [k \in 1..Len(ko) |->
                         [step |-> "INSERT_APPOINTMENTS", message |-> << "Failed" >>]],
         tried |-> Len(appointments)]

\* index.ts:63-65: insertAppointments runs over the generated appointments
\* and returns; main() goes on to the statistics
InsertAppointments ==
    /\ pc = "insert_appointments"
    /\ \E failing \in FailSets(Len(appointmentsData)) :
          LET r == insertAppointments(appointmentsData, failing)
          IN  /\ faults + Cost(failing) <= MaxFaults
              /\ faults' = faults + Cost(failing)
              /\ errors' = appendAll(errors, r.failures)
              /\ addCalls' = addCalls + Len(r.failures)
              /\ attempts' = [attempts EXCEPT !.appointments = @ + r.tried]
              /\ db' = [db EXCEPT !.appointments = @ + r.inserted]
    /\ Begin("stats", "stats")
    /\ UNCHANGED << crawlVars, runVars, insertVars >>

----------------------------------------------------------------------------
(* main(): the statistics and the end of the run.                           *)

\* index.ts:66-76: getStats (its five counts are not caught), the summary,
\* the warning, process.exit(0)
Complete ==
    /\ pc = "stats"
    /\ \/ /\ pc' = "exited"
          /\ warned' = completionWarns(errors)
          /\ warnedB' = {completionWarns(l) : l \in AltLogs(errors)}
          /\ exitCode' = completionExit(errors)
          /\ exitCodeB' = {completionExit(l) : l \in AltLogs(errors)}
          /\ UNCHANGED << steps, stepsB, faults >>
       \/ /\ CanFail
          /\ faults' = faults + 1
          /\ Fatal
    /\ UNCHANGED << trackerVars, storeVars, crawlVars, insertVars, runVars >>

\* index.ts:29-39: the store already holds doctors
SkipMigration ==
    /\ pc = "skip"
    /\ \/ /\ pc' = "exited"
          /\ exitCode' = 0
          /\ exitCodeB' = {0}
          /\ UNCHANGED << steps, warned, stepsB, warnedB, faults >>
       \/ /\ CanFail
          /\ faults' = faults + 1
          /\ Fatal
    /\ UNCHANGED << trackerVars, storeVars, crawlVars, insertVars, runVars >>

Next ==
    \/ Connect
    \/ CountDoctors
    \/ SkipMigration
    \/ FetchPage
    \/ ProcessCandidate
    \/ FetchListing
    \/ ParseCard
    \/ EndScope
    \/ FinishCrawl
    \/ InsertDoctor
    \/ GeneratePatients
    \/ InsertPatient
    \/ GenerateAppointments
    \/ InsertAppointments
    \/ Complete

Spec == Init /\ [][Next]_vars

----------------------------------------------------------------------------
(* ErrorTracker driven on its own: any sequence of addError and clear       *)
(* calls, next to the opening of main() up to its own clear().              *)

\* pc of a process that only calls ErrorTracker: "tracker" at first, then the
\* last call: "added", "cleared" (records were removed), "reset" (none were)
TrackerPcs == {"tracker", "added", "cleared", "reset"}

Messages == { << "a" >>, << "b" >> }

TrackerAdd ==
    /\ pc \in TrackerPcs
    /\ Len(errors) < MaxLog
    /\ \E step \in Stages, message \in Messages :
          errors' = addError(errors, step, message)
    /\ addCalls' = addCalls + 1
    /\ pc' = "added"
    /\ UNCHANGED << exitCode, steps, warned, exitCodeB, stepsB, warnedB, storeVars,
                    crawlVars, insertVars, runVars, faults >>

TrackerClear ==
    /\ pc \in TrackerPcs
    /\ errors' = clear(errors)
    /\ addCalls' = 0
    /\ pc' = IF hasErrors(errors) THEN "cleared" ELSE "reset"
    /\ UNCHANGED << exitCode, steps, warned, exitCodeB, stepsB, warnedB, storeVars,
                    crawlVars, insertVars, runVars, faults >>

InitTracker == Init \/ (Start("tracker", 0, "city") /\ NoCall)

NextTracker ==
    \/ Connect
    \/ CountDoctors
    \/ SkipMigration
    \/ TrackerAdd
    \/ TrackerClear

SpecTracker == InitTracker /\ [][NextTracker]_vars

----------------------------------------------------------------------------
(* Properties of the pipeline.                                              *)

RECURSIVE SumCounts(_)
\* the number of candidates the requests of a page log have parsed
SumCounts(log) ==
    IF log = << >> THEN 0 ELSE Head(log).count + SumCounts(Tail(log))

Crawling == pc \in {"page", "profile", "listing", "cards"}

\* C1: when no scope accepted a record, scrapeDoctors raises instead of
\* returning; the run ends at once with exit status 1, "crawl" being its only
\* step, and no create() has been issued on any table
C1_EmptyCrawlIsFatal ==
    (scrapeOutcome # "none" /\ Len(allDoctors) = 0) =>
        /\ scrapeOutcome = "raised"
        /\ pc = "exited"
        /\ exitCode = 1
        /\ steps = << "crawl" >>
        /\ \A t \in Tables : attempts[t] = 0

\* a run that crawled all its scopes, accepted nothing and ended fatally
C1_Witness ==
    /\ scrapeOutcome = "raised"
    /\ pc = "exited"
    /\ exitCode = 1
    /\ cityIdx = numScopes
    /\ Len(allDoctors) = 0

\* C2 (as the specification states it): a run whose crawl returned a
\* non-empty result set ends with exit status 0
C2_NonEmptyCrawlExitsZero ==
    (pc = "exited" /\ scrapeOutcome = "returned" /\ Len(allDoctors) > 0) =>
        exitCode = 0

\* C3: in the per-city crawl the i-th request of a scope is for page i; a
\* fetched page without results is the last request of its scope; the
\* candidates of the earlier pages stay aggregated and are handled in order,
\* the candidate loop ending only when all are handled or the cap is reached
C3_EmptyPageEndsPageLoop ==
    /\ [](variant = "city" =>
            /\ \A i \in 1..Len(pageLog) :
                  /\ pageLog[i].page = i
                  /\ pageLog[i].outcome = "empty" =>
                        (i = Len(pageLog) /\ pc # "page")
            /\ Crawling => Len(searchResults) = SumCounts(pageLog)
            /\ pc = "profile" =>
                  /\ Len(candidateLog) = resIdx - 1
                  /\ \A k \in 1..Len(candidateLog) :
                        candidateLog[k].url = searchResults[k].doctorUrl)
    /\ [][(pc = "profile" /\ pc' # "profile") =>
             (Len(candidateLog) = Len(searchResults) \/ capReached(processed))]_vars

\* page 1 gave candidates, page 2 was fetched and empty, page 3 was not
\* requested, and a candidate of page 1 has become a record
C3_Witness ==
    /\ variant = "city"
    /\ pc = "profile"
    /\ Len(pageLog) = 2
    /\ pageLog[1].outcome = "results"
    /\ pageLog[2].outcome = "empty"
    /\ Len(doctors) > 0

\* C4 (as the specification states it): once the page loop of a scope in
\* which a page request failed is over, every page up to maxPages has been
\* requested
C4_EveryLaterPageFetched ==
    (/\ variant = "city"
     /\ pc \in {"profile", "crawled"}
     /\ \E i \in 1..Len(pageLog) : pageLog[i].outcome = "fail")
        => Len(pageLog) = maxPages

\* C4 (amended): in the per-city crawl a scope issues at most maxPages
\* requests; after a failed page k < maxPages the loop goes on with page
\* k + 1; the page loop ends only after page maxPages or after a fetched page
\* without results, never because a page failed; the candidates of the pages
\* that succeeded stay aggregated; and the crawl ends only after the last scope
C4_FailedPageDoesNotAbortScope ==
    variant = "city" =>
        /\ Len(pageLog) <= maxPages
        /\ \A i \in 1..Len(pageLog) :
              pageLog[i].outcome = "fail" =>
                 \/ i < Len(pageLog)
                 \/ i = maxPages
                 \/ pc = "page" /\ page = i + 1
        /\ pc \in {"profile", "crawled"} =>
              \/ Len(pageLog) = maxPages
              \/ pageLog[Len(pageLog)].outcome = "empty"
        /\ Crawling => Len(searchResults) = SumCounts(pageLog)
        /\ (pc = "crawled" \/ scrapeOutcome # "none") => cityIdx = Len(cities)
        /\ \A f \in pageFailures : f.city <= cityIdx /\ f.page <= maxPages

\* page 1 of the first city failed, records of that city were accepted all
\* the same, and the second city is being crawled and has accepted a record
C4_Witness ==
    /\ variant = "city"
    /\ pc = "profile"
    /\ cityIdx = 2
    /\ [city |-> 1, page |-> 1] \in pageFailures
    /\ Len(allDoctors) > 0
    /\ Len(doctors) > 0

\* C5: a scope never accepts more records than the cap, and every candidate
\* a scope handled (fetched, extracted, accepted or not) was handled while
\* fewer records than the cap were accepted
C5_ScopeCap ==
    /\ processed <= MaxDoctorsPerCity
    /\ Len(doctors) <= MaxDoctorsPerCity
    /\ Crawling => Len(doctors) = processed
    /\ \A i \in 1..Len(candidateLog) : candidateLog[i].before < MaxDoctorsPerCity
    /\ Cardinality({i \in 1..Len(candidateLog) :
                       candidateLog[i].outcome = "accepted"}) <= MaxDoctorsPerCity
    /\ Len(allDoctors) <= cityIdx * MaxDoctorsPerCity

\* the cap is reached while candidates of the scope are left: none of them
\* has been handled
C5_Witness ==
    /\ pc \in {"profile", "cards"}
    /\ processed = MaxDoctorsPerCity
    /\ resIdx <= Len(searchResults)
    /\ Len(candidateLog) = resIdx - 1

\* C6: no two records of the crawl's output, of one scope or of two, have
\* the same profileUrl
C6_UniqueProfileUrls ==
    LET out == allDoctors \o doctors
    IN  /\ \A i, j \in 1..Len(out) :
              i # j => out[i].profileUrl # out[j].profileUrl
        /\ \A i \in 1..Len(out) : out[i].profileUrl \in scrapedUrls

\* a candidate whose URL an earlier scope accepted has been skipped
C6_Witness ==
    /\ Crawling
    /\ cityIdx >= 2
    /\ \E i \in 1..Len(candidateLog) :
          /\ candidateLog[i].outcome = "duplicate"
          /\ \E k \in 1..Len(allDoctors) :
                allDoctors[k].profileUrl = candidateLog[i].url

\* the run is past insertDoctors / past insertPatients
DoctorsDone == Len(steps) >= 3
PatientsDone == Len(steps) >= 4

\* C7: insertDoctors issues one doctor create per input record, in order and
\* without retry; every rejected create adds exactly one INSERT_DOCTORS
\* record, naming the rejected input; the returned list and the
\* INSERT_DOCTORS records together count the inputs; the same holds of
\* insertPatients and INSERT_PATIENTS
C7_InsertAccounting ==
    LET docFails == getErrorsByStep(errors, "INSERT_DOCTORS")
        patFails == getErrorsByStep(errors, "INSERT_PATIENTS")
    IN  /\ Len(insertedDoctors) + Len(docFails) = attempts.doctors
        /\ pc = "insert_doctors" => attempts.doctors = insIdx - 1
        /\ DoctorsDone => attempts.doctors = Len(allDoctors)
        /\ \A k \in 1..Len(docFails) :
              \E i \in 1..attempts.doctors :
                 docFails[k].message = << "Failed", allDoctors[i].fullName >>
        /\ \A k \in 1..(Len(insertedDoctors) - 1) :
              insertedDoctors[k].id < insertedDoctors[k + 1].id
        /\ Len(insertedPatients) + Len(patFails) = attempts.patients
        /\ pc = "insert_patients" => attempts.patients = insIdx - 1
        /\ PatientsDone => attempts.patients = Len(patientsData)
        /\ \A k \in 1..Len(patFails) :
              \E i \in 1..attempts.patients :
                 patFails[k].message = << "Failed", patientsData[i].fullName >>

\* insertDoctors has returned after one of its creates was rejected and
\* another accepted
C7_Witness ==
    /\ pc = "insert_patients"
    /\ Len(getErrorsByStep(errors, "INSERT_DOCTORS")) = 1
    /\ Len(insertedDoctors) >= 1
    /\ Len(allDoctors) = Len(insertedDoctors) + 1

\* C8 (as the specification states it): every failed page request of the
\* scope being crawled, and every candidate of it discarded because its
\* profile request failed, it has no name or it failed validation, has a
\* record in the failure log
C8_CrawlFailuresLogged ==
    Crawling =>
        Cardinality({i \in 1..Len(pageLog) :
                        pageLog[i].outcome \in {"fail", "notfound"}})
        + Cardinality({i \in 1..Len(candidateLog) :
                          candidateLog[i].outcome \in
                              {"failed", "unparsed", "discarded"}})
            <= getErrorCount(errors)

\* C9: the exit status and the sequence of steps of a run are those of the
\* same run read against any other failure log (an empty one, a longer one)
C9_LogDoesNotSteer ==
    /\ exitCodeB = {exitCode}
    /\ stepsB = {steps}

\* a completed run that recorded failures: it warned, the same run with an
\* empty log did not, and both exited with status 0
C9_Witness ==
    /\ pc = "exited"
    /\ exitCode = 0
    /\ hasErrors(errors)
    /\ warned
    /\ warnedB = {TRUE, FALSE}

\* the k-th index, in increasing order, of the records of stage s
KthOfStage(errs, s, k) ==
    LET idx == {i \in 1..Len(errs) : errs[i].step = s}
    IN  CHOOSE i \in idx : Cardinality({j \in idx : j <= i}) = k

RECURSIVE SumByStage(_, _)
SumByStage(errs, stages) ==
    IF stages = {} THEN 0
    ELSE LET s == CHOOSE x \in stages : TRUE
         IN  Len(getErrorsByStep(errs, s)) + SumByStage(errs, stages \ {s})

\* C10: the count is the number of addError calls since the last clear and
\* hasErrors holds exactly when it is positive; getErrorsByStep(s) is the
\* records of stage s in recording order, and the per-stage counts sum to
\* the count; a step either leaves the log alone, is an addError that
\* appends one record at its end without touching the earlier ones, or is a
\* clear that empties it; main() clears the log when it starts the crawl
C10_TrackerLog ==
    /\ [](/\ getErrorCount(errors) = addCalls
          /\ hasErrors(errors) <=> (getErrorCount(errors) > 0)
          /\ getErrors(errors) = errors
          /\ \A s \in Stages :
                LET sub == getErrorsByStep(errors, s)
                IN  /\ Len(sub) = Cardinality({i \in 1..Len(errors) :
                                                  errors[i].step = s})
                    /\ \A k \in 1..Len(sub) : sub[k] = errors[KthOfStage(errors, s, k)]
          /\ SumByStage(errors, Stages) = getErrorCount(errors))
    /\ [][\/ /\ errors' = errors
             /\ addCalls' = addCalls
          \/ /\ pc' = "added"
             /\ addCalls' = addCalls + 1
             /\ Len(errors') = Len(errors) + 1
             /\ SubSeq(errors', 1, Len(errors)) = errors
          \/ /\ pc' \in {"cleared", "reset"} \/ (steps = << >> /\ steps' = << "crawl" >>)
             /\ errors' = << >>
             /\ addCalls' = 0
             /\ ~hasErrors(errors')
             /\ getErrorCount(errors') = 0]_vars
    /\ [][(steps = << >> /\ steps' = << "crawl" >>) => errors' = << >>]_vars

\* clear() has just emptied a log that held records
C10_WitnessCleared ==
    /\ pc = "cleared"
    /\ errors = << >>
    /\ addCalls = 0

\* three addError calls since the last clear, two of one stage around one of
\* another
C10_Witness ==
    /\ pc = "added"
    /\ addCalls = 3
    /\ Len(errors) = 3
    /\ errors[1].step = "INSERT_DOCTORS"
    /\ errors[2].step = "INSERT_PATIENTS"
    /\ errors[3].step = "INSERT_DOCTORS"
    /\ errors[1].message # errors[3].message

----------------------------------------------------------------------------
(* The functions of the scrapers and generators called on their own, each   *)
(* on inputs drawn from a bounded set.  The record validator is called on   *)
(* names put together from parts: person names, separators and organization *)
(* terms in several letter cases.                                           *)

\* number of parts a name is put together from
MaxParts == 2

\* w with the first letter of each word in upper case
Capitalized(w) ==
    [i \in 1..Len(w) |-> IF i = 1 \/ w[i - 1] = " " THEN UpperOf(w[i]) ELSE w[i]]

\* w with every other letter in upper case
Alternated(w) == [i \in 1..Len(w) |-> IF i % 2 = 1 THEN UpperOf(w[i]) ELSE w[i]]

LetterCases(w) == {w, toUpperCase(w), Capitalized(w), Alternated(w)}

\* the organization terms both validators deny: clinic, medical center,
\* hospital, polyclinic, medical services
OrganizationTerms ==
    { <<"c","l","i'","n","i","c","a">>,
      <<"c","e","n","t","r","o"," ","m","e'","d","i","c","o">>,
      <<"h","o","s","p","i","t","a","l">>,
      <<"p","o","l","i","c","l","i'","n","i","c","o">>,
      <<"s","e","r","v","i","c","i","o","s"," ","m","e'","d","i","c","o","s">> }

NameParts ==
    { <<"A","n","a">>, <<"A","n","a"," ">>, <<"A","N","A"," ">>, <<"A","n","a","\t">>,
      <<"L","i">>, <<"L","I">>, <<" ">>,
      <<"J","u","a","n"," ","P","e'","r","e","z"," ","G","a","r","c","i'","a">>,
      <<"c","l","i","n","i","c","a">>, <<"C","e","n","t","r","o">>,
      <<"C","e","r","e","b","r","o">>, <<"G","e","n","e","r","a","l">> }
    \cup UNION {LetterCases(w) : w \in OrganizationTerms}

RECURSIVE Names(_)
\* the names of at most n parts
Names(n) ==
    IF n = 0 THEN { << >> }
    ELSE Names(n - 1) \cup {a \o b : a \in Names(n - 1), b \in NameParts}

\* the records the validator is called on
ValidatorInputs ==
    {[fullName |-> name, specialty |-> specialty] :
        name \in Names(MaxParts), specialty \in {General, Cardiologo}}

\* this.isValidDoctor(doctor) of the per-city scraper
CallIsValidDoctor ==
    /\ pc = "validate"
    /\ variant = "city"
    /\ ret' = isValidDoctor(arg)
    /\ pc' = "validated"
    /\ UNCHANGED << exitCode, steps, warned, exitCodeB, stepsB, warnedB, trackerVars,
                    storeVars, crawlVars, insertVars, faults, today, variant, arg, wait >>

\* this.isValidDoctor(doctor) of the per-specialty scraper
CallIsValidDoctorBySpecialty ==
    /\ pc = "validate"
    /\ variant = "specialty"
    /\ ret' = isValidDoctorBySpecialty(arg)
    /\ pc' = "validated"
    /\ UNCHANGED << exitCode, steps, warned, exitCodeB, stepsB, warnedB, trackerVars,
                    storeVars, crawlVars, insertVars, faults, today, variant, arg, wait >>

\* answers of the slots request: failed, no slot, no slot that is kept, two
\* kept slots among four
SlotAnswers ==
    LET slot(booked, url, start) ==
            [booked |-> booked, booking_url |-> url,
             start |-> [isDate |-> TRUE, instant |-> start]]
    IN  { [failed |-> TRUE, items |-> << >>],
          [failed |-> FALSE, items |-> << >>],
          [failed |-> FALSE, items |-> << slot(TRUE, "b1", At(1, 9)), slot(FALSE, "", At(1, 10)) >>],
          [failed |-> FALSE, items |-> << slot(TRUE, "b1", At(1, 9)), slot(FALSE, "b2", At(1, 10)),
                                          slot(FALSE, "", At(1, 11)), slot(FALSE, "b4", At(2, 9)) >>] }

\* the calls of scrapeDoctorProfile: the flag, a search result with or
\* without an address id, its profile page (the address as written or in
\* capitals), the day of the week and the answer of the slots request
ProfileInputs ==
    {[useReal |-> useReal,
      result |-> [Cards(cities[1])[k] EXCEPT !.addressId = addressId],
      doc |-> IF upper
              THEN [ProfilePage(Cards(cities[1])[k].doctorUrl) EXCEPT
                      !.address.metaStreet = toUpperCase(@),
                      !.address.paragraphs = [i \in DOMAIN @ |-> toUpperCase(@[i])]]
              ELSE ProfilePage(Cards(cities[1])[k].doctorUrl),
      dow |-> dow,
      answer |-> answer] :
        useReal \in BOOLEAN, k \in 1..3, addressId \in {"", "a1"}, upper \in BOOLEAN,
        dow \in 0..6, answer \in SlotAnswers}

\* this.scrapeDoctorProfile(result), the profile request succeeding
CallScrapeDoctorProfile ==
    /\ pc = "profile_call"
    /\ ret' = scrapeDoctorProfile(arg.result, arg.doc, arg.dow, arg.useReal, arg.answer)
    /\ pc' = "profiled"
    /\ UNCHANGED << exitCode, steps, warned, exitCodeB, stepsB, warnedB, trackerVars,
                    storeVars, crawlVars, insertVars, faults, today, variant, arg, wait >>

\* the categories generateMockTreatments is called on
Categories ==
    { <<"C","a","r","d","i","o","l","o","g","i'","a">>,
      <<"C","A","R","D","I","O","L","O","G","O">>,
      <<"P","s","i","q","u","i","a","t","r","a"," ","y"," ","P","s","i","c","o","l","o","g","o">>,
      <<"P","s","i","c","o","l","o","g","o">>,
      <<"P","s","i","q","u","i","a","t","r","a">>,
      <<"N","u","t","r","i","c","i","o","n"," ","d","e","n","t","a","l">>,
      <<"D","e","r","m","a","t","o","-","p","e","d","i","a","t","r","a">>,
      <<"O","d","o","n","t","o","l","o","g","i","a">>,
      <<"D","e","n","t","i","s","t","a">>,
      <<"G","e","n","e","r","a","l">>,
      <<>>,
      <<"P","e","d","i","a","t","r","a">>,
      <<"N","u","t","r","i">> }

\* this.generateMockTreatments(specialty) of the scraper of the build
CallGenerateMockTreatments ==
    /\ pc = "synthesize"
    /\ ret' = IF variant = "city" THEN generateMockTreatments(arg)
              ELSE generateMockTreatmentsBySpecialty(arg)
    /\ pc' = "synthesized"
    /\ UNCHANGED << exitCode, steps, warned, exitCodeB, stepsB, warnedB, trackerVars,
                    storeVars, crawlVars, insertVars, faults, today, variant, arg, wait >>

\* longest list of service items of a profile page
MaxItems == 3

\* the texts a service item or a heading of a profile page can hold
ItemTexts ==
    { <<"E","c","o">>, <<"E","C","O">>, <<" ","e","c","o"," ">>, << >>, <<" ">>,
      <<"C","o","n","s","u","l","t","a">> }

RECURSIVE ItemLists(_)
\* the lists of at most n service items
ItemLists(n) ==
    IF n = 0 THEN { << >> }
    ELSE ItemLists(n - 1) \cup {Append(l, t) : l \in ItemLists(n - 1), t \in ItemTexts}

\* the profile pages extractTreatments is called on
TreatmentPages ==
    {[serviceItems |-> items, headings |-> headings, address |-> << >>] :
        items \in ItemLists(MaxItems),
        headings \in { << >>, << <<"E","c","o">>, <<"e","c","o">> >>,
                       << <<" ">>, <<"L","i","m","a">>, <<"E","c","o">>, <<"L","I","M","A">> >> }}

\* this.extractTreatments($)
CallExtractTreatments ==
    /\ pc = "extract"
    /\ ret' = extractTreatments(arg)
    /\ pc' = "extracted"
    /\ UNCHANGED << exitCode, steps, warned, exitCodeB, stepsB, warnedB, trackerVars,
                    storeVars, crawlVars, insertVars, faults, today, variant, arg, wait >>

\* lengths in minutes of the availability blocks generate is called on
BlockMinutes == {0 - 30, 0, 20, 30, 45, 240}

\* what a draw returns in the calls of generate, in hundredths
DrawSamples == {0, 50, 99}

RECURSIVE BlockLists(_, _)
\* the lists of at most n availability rows starting at start
BlockLists(start, n) ==
    IF n = 0 THEN { << >> }
    ELSE BlockLists(start, n - 1) \cup
         {Append(l, [id |-> Len(l) + 1, start_at |-> start, end_at |-> start + m]) :
             l \in BlockLists(start, n - 1), m \in BlockMinutes}

\* longest list of availability rows of the first doctor
MaxBlocks == 2

\* a NUM_APPOINTMENTS_PER_DOCTOR above the four appointments of one block
ManyPerDoctor == 5

\* the calls of generate: two inserted doctors whose blocks lie on different
\* days, two patients, and the draws of each attempt; then the same without
\* patients, without treatments of the second doctor, and with more attempts
\* than a block allows
GenerateInputs ==
    {[doctors |-> << [id |-> 1, availability |-> first,
                      treatments |-> << [id |-> 1], [id |-> 2] >>],
                     [id |-> 2, availability |-> second,
                      treatments |-> IF case = "no_treatments" THEN << >>
                                     ELSE << [id |-> 3] >>] >>,
      patients |-> IF case = "no_patients" THEN << >>
                   ELSE << [id |-> 1], [id |-> 2] >>,
      rnd |-> [i \in 1..(IF case = "many" THEN ManyPerDoctor
                         ELSE NumAppointmentsPerDoctor) |->
                 [availability |-> block, treatment |-> other, patient |-> other,
                  slot |-> slot, status |-> other]]] :
        case \in {"plain", "no_patients", "no_treatments", "many"},
        first \in BlockLists(At(1, 9), MaxBlocks),
        second \in { << >>,
                     << [id |-> 1, start_at |-> At(2, 15), end_at |-> At(2, 15) + 20] >>,
                     << [id |-> 1, start_at |-> At(2, 15), end_at |-> At(2, 15) + 60] >> },
        block \in DrawSamples, slot \in DrawSamples, other \in RandomSamples}

\* appointmentGenerator.generate(insertedDoctors, insertedPatients)
CallGenerate ==
    /\ pc = "generate_call"
    /\ ret' = generate(arg.doctors, arg.patients, arg.rnd, 1, 1)
    /\ pc' = "generated"
    /\ UNCHANGED << exitCode, steps, warned, exitCodeB, stepsB, warnedB, trackerVars,
                    storeVars, crawlVars, insertVars, faults, today, variant, arg, wait >>

----------------------------------------------------------------------------
(* cleanAddress called on its own.                                          *)

\* longest address cleanAddress is called on
MaxAddr == 5

RECURSIVE Addresses(_)
\* the addresses of at most n characters: letters, commas, blanks, line
\* breaks and tabs
Addresses(n) ==
    IF n = 0 THEN { << >> }
    ELSE Addresses(n - 1) \cup
         {Append(a, c) : a \in Addresses(n - 1), c \in {"a", ",", " ", "\n", "\t"}}

\* this.cleanAddress(addr)
CallCleanAddress ==
    /\ pc = "clean"
    /\ ret' = cleanAddress(arg)
    /\ pc' = "cleaned"
    /\ UNCHANGED << exitCode, steps, warned, exitCodeB, stepsB, warnedB, trackerVars,
                    storeVars, crawlVars, insertVars, faults, today, variant, arg, wait >>

----------------------------------------------------------------------------
(* Synthesized phone numbers (part_000:572-574, part_003:52-54).            *)

RECURSIVE Digits(_)
\* `${n}` for a natural number n: its decimal digits, without leading zero
Digits(n) ==
    IF n < 10 THEN << DigitChars[n + 1] >>
    ELSE Digits(n \div 10) \o << DigitChars[(n % 10) + 1] >>

\* what Math.random() returns in the calls below, in units of 10^-8: the
\* two ends of [0, 1), their neighbours, and the hundredths
PhoneDraws ==
    {0, 1, 9, 10, 11111111, 12345678, 99999989, 99999998, 99999999}
        \cup {k * 1000000 : k \in 0..99}

\* `9${Math.floor(Math.random() * 90000000)}`: the addend left out
generatePhoneUnpadded(u) == << "9" >> \o Digits((u * 9) \div 10)

\* generatePhone of the scraper, Math.random() returning u * 10^-8:
\* Math.floor(u * 10^-8 * 90000000 + 10000000) = floor(9u / 10) + 10000000
generatePhone(u) == << "9" >> \o Digits((u * 9) \div 10 + 10000000)

\* generatePhoneNumber of PatientGenerator, Math.random() returning u * 10^-8
generatePhoneNumber(u) == << "9" >> \o Digits((u * 9) \div 10 + 10000000)

\* this.generatePhone() of the scraper
CallGeneratePhone ==
    /\ pc = "phone"
    /\ ret' = generatePhone(arg)
    /\ pc' = "phoned"
    /\ UNCHANGED << exitCode, steps, warned, exitCodeB, stepsB, warnedB, trackerVars,
                    storeVars, crawlVars, insertVars, faults, today, variant, arg, wait >>

\* this.generatePhoneNumber() of PatientGenerator
CallGeneratePhoneNumber ==
    /\ pc = "patient_phone"
    /\ ret' = generatePhoneNumber(arg)
    /\ pc' = "patient_phoned"
    /\ UNCHANGED << exitCode, steps, warned, exitCodeB, stepsB, warnedB, trackerVars,
                    storeVars, crawlVars, insertVars, faults, today, variant, arg, wait >>

----------------------------------------------------------------------------
(* Rating and review count of a record (part_000:155-171, part_001:245-274) *)
(* and of the row handed to the store (part_004:52-67).  A number is a      *)
(* record: nan, or its value in tenths (the texts tried have at most one    *)
(* decimal).                                                                *)

RECURSIVE DigitsValue(_)
\* the number a sequence of digits writes
DigitsValue(s) ==
    IF s = << >> THEN 0
    ELSE DigitsValue(SubSeq(s, 1, Len(s) - 1)) * 10
           + (CHOOSE d \in 0..9 : DigitChars[d + 1] = s[Len(s)])

\* the length of the run of digits of s that starts at index i
DigitRun(s, i) ==
    LET stop == {j \in i..Len(s) : ~IsDigit(s[j])}
    IN  (IF stop = {} THEN Len(s) + 1 ELSE CHOOSE j \in stop : \A k \in stop : j <= k) - i

NaN == [nan |-> TRUE, tenths |-> 0]

\* parseFloat(text) when fraction, parseInt(text) when not: leading \s is
\* skipped, then a sign, digits and (parseFloat) a point and digits are read;
\* what follows is ignored; NaN when no digit was read
parseNumber(text, fraction) ==
    LET t == SkipSpaces(text)
        signed == t # << >> /\ t[1] \in {"-", "+"}
        from == IF signed THEN 2 ELSE 1
        n == DigitRun(t, from)
        point == from + n
        m == IF fraction /\ point <= Len(t) /\ t[point] = "."
             THEN DigitRun(t, point + 1) ELSE 0
        whole == DigitsValue(SubSeq(t, from, from + n - 1))
        tenth == IF m = 0 THEN 0 ELSE DigitsValue(<< t[point + 1] >>)
        value == whole * 10 + tenth
    IN  IF n = 0 /\ m = 0 THEN NaN
        ELSE [nan |-> FALSE,
              tenths |-> IF signed /\ t[1] = "-" THEN 0 - value ELSE value]

NoRating == [isNull |-> TRUE, tenths |-> 0]

\* rating and reviewCount of a search result (part_000:158-170); a rating is
\* null or its value in tenths
searchResultNumbers(ratingStr, reviewStr) ==
    LET rating == IF ratingStr # << >> THEN parseNumber(ratingStr, TRUE) ELSE NaN
        truthy == ratingStr # << >> /\ ~rating.nan /\ rating.tenths # 0
        reviewCount == IF reviewStr # << >> THEN parseNumber(reviewStr, FALSE)
                       ELSE [nan |-> FALSE, tenths |-> 0]
    IN  [rating |-> IF truthy /\ rating.tenths >= 0 /\ rating.tenths <= 50
                    THEN [isNull |-> FALSE, tenths |-> rating.tenths]
                    ELSE NoRating,
         reviewCount |-> IF reviewCount.nan THEN 0 ELSE reviewCount.tenths \div 10]

\* rating and reviewCount of a card (part_001:245-274, 416-422), the draws of
\* generateRandomRating and generateRandomReviewCount returning r hundredths
cardNumbers(ratingText, reviewText, r) ==
    LET parsedRating == parseNumber(trim(ratingText), TRUE)
        kept == /\ trim(ratingText) # << >>
                /\ ~parsedRating.nan
                /\ parsedRating.tenths >= 0
                /\ parsedRating.tenths <= 50
        digitsOnly == SelectSeq(trim(reviewText), IsDigit)
        reviewCount == parseNumber(digitsOnly, FALSE)
        randomCount == floorRandom(r, 200) + 10
    IN  [rating |-> [isNull |-> FALSE,
                     tenths |-> IF kept THEN parsedRating.tenths
                                ELSE (2 * r + 300 + 5) \div 10],
         reviewCount |-> IF trim(reviewText) = << >> \/ reviewCount.nan
                         THEN randomCount ELSE reviewCount.tenths \div 10]

\* rating and review_count of the row insertDoctors creates (part_004:52-67)
doctorRow(doctor) ==
    [rating |-> IF ~doctor.rating.isNull
                   /\ (doctor.rating.tenths > 50 \/ doctor.rating.tenths < 0)
                THEN NoRating ELSE doctor.rating,
     review_count |-> doctor.reviewCount]

\* the texts of the rating and review-count attributes
RatingTexts ==
    { << >>, <<"a","b","c">>, <<"4",".","5">>, <<"5">>, <<"5",".","1">>, <<"0">>,
      <<"-","1">>, <<"7">>, <<"4",".","5","x">>, <<" ","3",".","2">> }

ReviewTexts ==
    { << >>, <<"a","b","c">>, <<"1","2">>, <<"-","3">>, <<"0">>, <<"3",".","7">>,
      <<"1","2","a","b","c">>,
      <<"(","2","5"," ","o","p","i","n","i","o","n","e","s",")">> }

\* the numbers of one result item (per-city scraper) or card (per-specialty
\* scraper), and of the row the store is handed for it
CallParseNumbers ==
    /\ pc = "numbers"
    /\ ret' = LET doctor == IF variant = "city"
                            THEN searchResultNumbers(arg.rating, arg.reviews)
                            ELSE cardNumbers(arg.rating, arg.reviews, arg.r)
              IN  [doctor |-> doctor, row |-> doctorRow(doctor)]
    /\ pc' = "numbered"
    /\ UNCHANGED << exitCode, steps, warned, exitCodeB, stepsB, warnedB, trackerVars,
                    storeVars, crawlVars, insertVars, faults, today, variant, arg, wait >>

----------------------------------------------------------------------------
(* extractAddress called on its own, through scrapeDoctorProfile.           *)

\* the texts the selectors of the five methods find on the pages tried
AddressPages ==
    LET avSolPostal == <<"A","v","."," ","S","o","l"," ","1","2","3"," ","1","5","0","0","1">>
        short == <<"C","a","l","l","e"," ","1">>
        colegiado == NumColegiado \o <<" ","1","2","3","4","5">>
        jrCusco == <<"J","r","."," ","C","u","s","c","o"," ","4","5","6">>
        commas == <<",",","," "," "," "," ","1","2","3","4","5">>
        avSolLima == <<"A","v","."," ","S","o","l"," ","1","2","3",","," ","L","i","m","a">>
        blanks == <<" "," "," "," "," "," ">>
        clinica == <<"C","l","i'","n","i","c","a"," ","S","o","l",","," ","A","v","."," ",
                     "S","o","l"," ","1","2","3">>
        calle == <<"C","a","l","l","e"," ","L","a","s"," ","F","l","o","r","e","s"," ",
                   "1","2","3">>
        drLarco == <<"D","r","."," ","A","v","."," ","L","a","r","c","o"," ",
                     "1","2","3","4","5","6","7">>
        online == <<"P","s","i","c","o","t","e","r","a","p","i","a"," ","o","n","l","i","n","e",
                    " ","1">>
        psPuno == <<"P","s"," ","J","r","."," ","P","u","n","o"," ",
                    "1","2","3","4","5","6","7","8","9">>
    IN  {[addressBlocks |-> blocks,
          streetAddress |-> street,
          metaStreet |-> meta,
          containers |-> containers,
          paragraphs |-> paragraphs] :
            blocks \in { << >>, << short, avSolPostal >>, << colegiado >> },
            street \in { [found |-> FALSE, text |-> << >>],
                         [found |-> TRUE, text |-> jrCusco],
                         [found |-> TRUE, text |-> commas],
                         [found |-> TRUE, text |-> colegiado] },
            meta \in { << >>, avSolLima, blanks, <<"L","i","m","a">> },
            containers \in { << >>, << << drLarco >>, << clinica, calle >> >>,
                             << << drLarco, clinica >> >> },
            paragraphs \in { << >>, << psPuno, online >>, << short >> }}

\* this.scrapeDoctorProfile(result) on a page whose address nodes are arg.doc
CallExtractAddress ==
    /\ pc = "address_call"
    /\ ret' = scrapeDoctorProfile(arg.result,
                                  [ProfilePage("u1") EXCEPT !.address = arg.doc],
                                  1, FALSE, NoAnswer)
    /\ pc' = "addressed"
    /\ UNCHANGED << exitCode, steps, warned, exitCodeB, stepsB, warnedB, trackerVars,
                    storeVars, crawlVars, insertVars, faults, today, variant, arg, wait >>

----------------------------------------------------------------------------
(* fetchAvailability called on its own.                                     *)

\* answers of the slots request: those of SlotAnswers, and two whose kept
\* item has a start that is not a date text (missing, or "pronto")
FetchAnswers ==
    LET slot(booked, url, isDate, start) ==
            [booked |-> booked, booking_url |-> url,
             start |-> [isDate |-> isDate, instant |-> start]]
    IN  SlotAnswers \cup
        { [failed |-> FALSE, items |-> << slot(FALSE, "b1", FALSE, 0) >>],
          [failed |-> FALSE, items |-> << slot(FALSE, "b1", TRUE, At(3, 9)),
                                          slot(TRUE, "b2", FALSE, 0),
                                          slot(FALSE, "b3", FALSE, 0),
                                          slot(FALSE, "b4", TRUE, At(2, 9)) >>] }

\* this.fetchAvailability(doctorId, addressId), the request answering arg
CallFetchAvailability ==
    /\ pc = "fetch_call"
    /\ ret' = fetchAvailability(arg)
    /\ pc' = "fetched"
    /\ UNCHANGED << exitCode, steps, warned, exitCodeB, stepsB, warnedB, trackerVars,
                    storeVars, crawlVars, insertVars, faults, today, variant, arg, wait >>

InitCall ==
    /\ ret = Null
    /\ wait = Null
    /\ \/ /\ \E v \in {"city", "specialty"} : Start("validate", 0, v)
          /\ arg \in ValidatorInputs
       \/ /\ Start("profile_call", 0, "city")
          /\ arg \in ProfileInputs
       \/ /\ \E v \in {"city", "specialty"} : Start("synthesize", 0, v)
          /\ arg \in Categories
       \/ /\ Start("extract", 0, "city")
          /\ arg \in TreatmentPages
       \/ /\ Start("generate_call", 0, "city")
          /\ arg \in GenerateInputs
       \/ /\ Start("clean", 0, "city")
          /\ arg \in Addresses(MaxAddr)
       \/ /\ \E p \in {"phone", "patient_phone"} : Start(p, 0, "city")
          /\ arg \in PhoneDraws
       \/ /\ \E v \in {"city", "specialty"} : Start("numbers", 0, v)
          /\ arg \in [rating : RatingTexts, reviews : ReviewTexts, r : RandomSamples]
       \/ /\ Start("address_call", 0, "city")
          /\ arg \in [result : {Cards(cities[1])[1]}, doc : AddressPages]
       \/ /\ Start("fetch_call", 0, "city")
          /\ arg \in FetchAnswers

NextCall ==
    \/ CallIsValidDoctor
    \/ CallIsValidDoctorBySpecialty
    \/ CallScrapeDoctorProfile
    \/ CallGenerateMockTreatments
    \/ CallExtractTreatments
    \/ CallGenerate
    \/ CallCleanAddress
    \/ CallGeneratePhone
    \/ CallGeneratePhoneNumber
    \/ CallParseNumbers
    \/ CallExtractAddress
    \/ CallFetchAvailability

SpecCall == InitCall /\ [][NextCall]_vars

----------------------------------------------------------------------------
(* WaitForDb.wait (src/utils/error-tracker.ts:81-132) called on its own:    *)
(* arg holds the options of the call, ret how it settled.                   *)

\* largest maxAttempts tried
MaxAttempts == 4

\* the options of the calls
WaitOptions == [maxAttempts : 0..MaxAttempts, delayMs : {500, 2000}]

InitWait ==
    /\ Start("wait_loop", 0, "city")
    /\ arg \in WaitOptions
    /\ ret = Null
    /\ wait = [attempt |-> 1, promise |-> "none", timeout |-> FALSE,
               socket |-> "none", events |-> << >>, sockets |-> 0, open |-> 0,
               failed |-> 0, slept |-> << >>]

\* attempt === maxAttempts (error-tracker.ts:120)
lastAttempt(attempt, maxAttempts) == attempt = maxAttempts

\* resolve() and reject() change a promise only while it is pending
settle(promise, outcome) == IF promise = "pending" THEN outcome ELSE promise

\* the test of the for loop (error-tracker.ts:87) and, when it holds, the
\* socket, the timer and the connect of a new attempt (error-tracker.ts:91-110);
\* when it fails the function returns
LoopTest ==
    /\ pc = "wait_loop"
    /\ IF wait.attempt <= arg.maxAttempts
       THEN /\ wait' = [wait EXCEPT !.promise = "pending", !.timeout = TRUE,
                                    !.socket = "connecting", !.events = << >>,
                                    !.sockets = @ + 1, !.open = @ + 1]
            /\ pc' = "wait_pending"
            /\ ret' = ret
       ELSE /\ pc' = "waited"
            /\ ret' = [settled |-> "resolved", message |-> << >>]
            /\ wait' = wait
    /\ UNCHANGED << exitCode, steps, warned, exitCodeB, stepsB, warnedB, trackerVars,
                    storeVars, crawlVars, insertVars, faults, today, variant, arg >>

\* the callback of socket.connect (error-tracker.ts:99-103)
OnConnect ==
    /\ pc = "wait_pending"
    /\ wait.socket = "connecting"
    /\ wait' = [wait EXCEPT !.timeout = FALSE, !.socket = "destroyed",
                            !.open = @ - 1,
                            !.promise = settle(@, "resolved"),
                            !.events = Append(@, "connect")]
    /\ UNCHANGED << mainVars, trackerVars, storeVars, crawlVars, insertVars, faults,
                    today, variant, arg, ret >>

\* the handler of the 'error' event of the socket (error-tracker.ts:105-109)
OnError ==
    /\ pc = "wait_pending"
    /\ wait.socket = "connecting"
    /\ wait' = [wait EXCEPT !.timeout = FALSE, !.socket = "destroyed",
                            !.open = @ - 1,
                            !.promise = settle(@, "rejected"),
                            !.events = Append(@, "error")]
    /\ UNCHANGED << mainVars, trackerVars, storeVars, crawlVars, insertVars, faults,
                    today, variant, arg, ret >>

\* the callback of the 3-second timer (error-tracker.ts:94-97)
OnTimeout ==
    /\ pc = "wait_pending"
    /\ wait.timeout
    /\ wait' = [wait EXCEPT !.timeout = FALSE, !.socket = "destroyed",
                            !.open = IF wait.socket = "connecting" THEN @ - 1 ELSE @,
                            !.promise = settle(@, "rejected"),
                            !.events = Append(@, "timeout")]
    /\ UNCHANGED << mainVars, trackerVars, storeVars, crawlVars, insertVars, faults,
                    today, variant, arg, ret >>

\* the await returns: the 3-second sleep and the return
\* (error-tracker.ts:112-115)
Ready ==
    /\ pc = "wait_pending"
    /\ wait.promise = "resolved"
    /\ wait' = [wait EXCEPT !.slept = Append(@, 3000)]
    /\ pc' = "waited"
    /\ ret' = [settled |-> "resolved", message |-> << >>]
    /\ UNCHANGED << exitCode, steps, warned, exitCodeB, stepsB, warnedB, trackerVars,
                    storeVars, crawlVars, insertVars, faults, today, variant, arg >>

\* the await throws: the catch (error-tracker.ts:117-125) and the attempt++
\* of the loop
Catch ==
    /\ pc = "wait_pending"
    /\ wait.promise = "rejected"
    /\ IF lastAttempt(wait.attempt, arg.maxAttempts)
       THEN /\ pc' = "waited"
            /\ ret' = [settled |-> "rejected",
                       message |-> << "Database not available after ",
                                      arg.maxAttempts, " attempts" >>]
            /\ wait' = [wait EXCEPT !.failed = @ + 1]
       ELSE /\ pc' = "wait_loop"
            /\ ret' = ret
            /\ wait' = [wait EXCEPT !.failed = @ + 1,
                                    !.slept = Append(@, arg.delayMs),
                                    !.attempt = @ + 1]
    /\ UNCHANGED << exitCode, steps, warned, exitCodeB, stepsB, warnedB, trackerVars,
                    storeVars, crawlVars, insertVars, faults, today, variant, arg >>

NextWait ==
    \/ LoopTest
    \/ OnConnect
    \/ OnError
    \/ OnTimeout
    \/ Ready
    \/ Catch

SpecWait == InitWait /\ [][NextWait]_vars

\* the event loop runs a callback that is due and resumes an await whose
\* promise is settled
SpecWaitFair == SpecWait /\ WF_vars(NextWait)

\* no character of s is a lower-case letter
NoLowerCase(s) == \A i \in 1..Len(s) : \A k \in 1..Len(LowerChars) : s[i] # LowerChars[k]

\* s holds an organization term, in one of the letter cases
HoldsOrganizationTerm(s) ==
    \E w \in OrganizationTerms : \E c \in LetterCases(w) : includes(s, c)

\* C11: the validator of either scraper rejects every record whose name holds
\* a denied organization term as a substring, whatever the letter case, and
\* every record whose name has no lower-case letter and at least one space
C11_DenylistAnyCaseAndUpperCase ==
    pc = "validated" =>
        /\ HoldsOrganizationTerm(arg.fullName) => ret = FALSE
        /\ (NoLowerCase(arg.fullName) /\ \E i \in 1..Len(arg.fullName) : arg.fullName[i] = " ")
              => ret = FALSE

\* the per-city validator has rejected "Ana HOSPITAL"
C11_Witness ==
    /\ pc = "validated"
    /\ variant = "city"
    /\ arg.fullName = <<"A","n","a"," ","H","O","S","P","I","T","A","L">>
    /\ ret = FALSE

\* the number of tokens of s split on whitespace
TokenCount(s) ==
    Cardinality({i \in 1..Len(s) : ~IsSpace(s[i]) /\ (i = 1 \/ IsSpace(s[i - 1]))})

\* C12 (as the specification states it): the validator of either scraper
\* rejects every record whose name, split on whitespace, has fewer than two
\* tokens, a single-word name and the empty name included
C12_FewerThanTwoTokensRejected ==
    (pc = "validated" /\ TokenCount(arg.fullName) < 2) => ret = FALSE

\* s holds w (a lower-case word) whatever the case of its letters
HoldsAnyCase(s, w) ==
    \E i \in 0..(Len(s) - Len(w)) :
        \A j \in 1..Len(w) : s[i + j] = w[j] \/ s[i + j] = UpperOf(w[j])

\* none of the rejection rules applies to record d in scraper variant v
NoRuleFires(v, d) ==
    LET denied == IF v = "city" THEN blacklist ELSE clinicKeywords
    IN  /\ \A k \in 1..Len(denied) : ~HoldsAnyCase(d.fullName, denied[k])
        /\ ~(NoLowerCase(d.fullName) /\ \E i \in 1..Len(d.fullName) : d.fullName[i] = " ")
        /\ d.fullName # d.specialty
        /\ Len(SelectSeq(trim(d.fullName), LAMBDA c : c = " ")) >= 1

C14_NoEmptyFullName ==
    /\ \A i \in 1..Len(doctors) : doctors[i].fullName # << >>
    /\ \A i \in 1..Len(allDoctors) : allDoctors[i].fullName # << >>

\* the slots of an answer that fetchAvailability keeps
KeptSlots(answer) ==
    IF answer.failed THEN << >>
    ELSE SelectSeq(answer.items, LAMBDA slot : ~slot.booked /\ slot.booking_url # "")

\* C15: the services of a profile record are the extracted ones when
\* extraction found any and the synthesized ones only when it found none; its
\* availability is the kept slots of the slots request when the flag is on,
\* the result has an address id and the request gave at least one kept slot,
\* and the synthesized blocks in every other case; so the record has at least
\* one service and one slot
C15_SynthesisOnlyFillsGaps ==
    pc = "profiled" =>
        LET extracted == extractTreatments(arg.doc)
            kept == KeptSlots(arg.answer)
            fetched == arg.useReal /\ arg.result.addressId # "" /\ Len(kept) >= 1
            isOnline == includes(toLowerCase(ret.address), OnlineMarker)
        IN  /\ Len(extracted) >= 1 => ret.treatments = extracted
            /\ Len(extracted) = 0 =>
                   ret.treatments = generateMockTreatments(arg.result.specialty)
            /\ fetched =>
                   /\ Len(ret.availability) = Len(kept)
                   /\ \A i \in 1..Len(kept) : ret.availability[i].startAt = kept[i].start.instant
            /\ ~fetched =>
                   ret.availability = generateMockAvailability(isOnline, arg.dow)
            /\ Len(ret.treatments) >= 1
            /\ Len(ret.availability) >= 1

\* a profile without services whose slots request gave two kept slots: the
\* services are synthesized, the availability is the two kept slots
C15_Witness ==
    /\ pc = "profiled"
    /\ arg.useReal
    /\ arg.result.addressId = "a1"
    /\ Len(extractTreatments(arg.doc)) = 0
    /\ Len(KeptSlots(arg.answer)) = 2
    /\ Len(ret.availability) = 2
    /\ ret.treatments = generateMockTreatments(arg.result.specialty)

\* a profile with extracted services, the flag on and a failed slots request:
\* the services are the extracted ones, the availability is synthesized
C15_WitnessFetchFailed ==
    /\ pc = "profiled"
    /\ arg.useReal
    /\ arg.result.addressId = "a1"
    /\ arg.answer.failed
    /\ Len(extractTreatments(arg.doc)) >= 1
    /\ ret.treatments = extractTreatments(arg.doc)
    /\ Len(ret.availability) > 2

\* C16: the synthesized services of a category are the list of the first
\* key, in the order of the table, that the category holds whatever its letter
\* case; a category that holds no key gets the single service "Consulta
\* general"
C16_FirstKeyInTableOrder ==
    pc = "synthesized" =>
        LET table == IF variant = "city" THEN mapping ELSE treatmentsBySpecialty
            hit(k) == HoldsAnyCase(arg, table[k].key)
        IN  /\ \A k \in 1..Len(table) :
                   (hit(k) /\ \A j \in 1..(k - 1) : ~hit(j)) =>
                       /\ Len(ret) = Len(table[k].value)
                       /\ \A i \in 1..Len(ret) : ret[i].name = table[k].value[i]
            /\ (\A k \in 1..Len(table) : ~hit(k)) =>
                   ret = << [name |-> ConsultaGeneral] >>

\* "Psiquiatra y Psicologo" holds the fourth and the fifth key and gets the
\* list of the fourth
C16_Witness ==
    /\ pc = "synthesized"
    /\ variant = "city"
    /\ HoldsAnyCase(arg, mapping[4].key)
    /\ HoldsAnyCase(arg, mapping[5].key)
    /\ ret[1].name = mapping[4].value[1]

\* "Odontologia" holds no key and gets the single default service
C16_WitnessDefault ==
    /\ pc = "synthesized"
    /\ arg = <<"O","d","o","n","t","o","l","o","g","i","a">>
    /\ ret = << [name |-> ConsultaGeneral] >>

\* a and b are the same name but for the case of their letters
SameIgnoringCase(a, b) ==
    /\ Len(a) = Len(b)
    /\ \A k \in 1..Len(a) : LowerOf(a[k]) = LowerOf(b[k])

\* the names of a list of services are pairwise distinct ignoring case
DistinctIgnoringCase(treatments) ==
    \A i, j \in 1..Len(treatments) :
        SameIgnoringCase(treatments[i].name, treatments[j].name) => i = j

\* the trimmed non-empty texts of a list, each at its first occurrence
\* ignoring case, in the order of the list
FirstSeen(texts) ==
    LET t == [i \in 1..Len(texts) |-> trim(texts[i])]
        first(i) == t[i] # << >> /\ \A j \in 1..(i - 1) : ~SameIgnoringCase(t[j], t[i])
        kept == SelectSeq([i \in 1..Len(texts) |-> i], first)
    IN  [k \in 1..Len(kept) |-> t[kept[k]]]

\* C17: the service names of a record are pairwise distinct ignoring case,
\* whether extractTreatments took them from the service items, from the
\* headings (read only when no service item gave a name) or they were
\* synthesized; extraction keeps each name at its first occurrence, in order
C17_ServiceNamesDistinct ==
    /\ pc = "extracted" =>
          LET primary == FirstSeen(arg.serviceItems)
              expected == IF Len(primary) > 0 THEN primary ELSE FirstSeen(arg.headings)
          IN  /\ DistinctIgnoringCase(ret)
              /\ Len(ret) = Len(expected)
              /\ \A i \in 1..Len(ret) : ret[i].name = expected[i]
    /\ pc = "synthesized" => DistinctIgnoringCase(ret)
    /\ pc = "profiled" => DistinctIgnoringCase(ret.treatments)

\* service items "Eco", "ECO", "Consulta" give the services "Eco", "Consulta"
C17_Witness ==
    /\ pc = "extracted"
    /\ arg.serviceItems = << <<"E","c","o">>, <<"E","C","O">>, <<"C","o","n","s","u","l","t","a">> >>
    /\ Len(ret) = 2
    /\ ret[1].name = <<"E","c","o">>
    /\ ret[2].name = <<"C","o","n","s","u","l","t","a">>

\* service items without a name and headings " ", "Lima", "Eco", "LIMA" give
\* the services "Lima", "Eco"
C17_WitnessHeadings ==
    /\ pc = "extracted"
    /\ FirstSeen(arg.serviceItems) = << >>
    /\ Len(arg.serviceItems) > 0
    /\ Len(arg.headings) = 4
    /\ Len(ret) = 2
    /\ ret[1].name = <<"L","i","m","a">>

\* appointment a lies in block b: it starts a whole number of slots after
\* the start of b, lasts one slot and ends no later than b
InBlock(a, b) ==
    /\ b.start_at <= a.startAt
    /\ a.endAt <= b.end_at
    /\ a.endAt - a.startAt = 30
    /\ \E n \in 0..((b.end_at - b.start_at) \div 30) : a.startAt = b.start_at + n * 30

\* C18: every appointment generate returns lies in an availability block of
\* the doctor it names: it starts at or after the start of the block, a whole
\* number of 30-minute steps after it, lasts exactly 30 minutes and ends at
\* or before the end of the block; a doctor whose blocks are all shorter than
\* 30 minutes gets no appointment
C18_AppointmentInsideOwnBlock ==
    pc = "generated" =>
        /\ \A k \in 1..Len(ret) :
               \E d \in 1..Len(arg.doctors) :
                   /\ arg.doctors[d].id = ret[k].doctorId
                   /\ \E i \in 1..Len(arg.doctors[d].availability) :
                          InBlock(ret[k], arg.doctors[d].availability[i])
        /\ \A d \in 1..Len(arg.doctors) :
               (\A i \in 1..Len(arg.doctors[d].availability) :
                    arg.doctors[d].availability[i].end_at
                      - arg.doctors[d].availability[i].start_at < 30)
                   => \A k \in 1..Len(ret) : ret[k].doctorId # arg.doctors[d].id

\* an appointment in the last slot of a four-hour block, next to a block of
\* 20 minutes that gave none
C18_Witness ==
    /\ pc = "generated"
    /\ Len(arg.doctors[1].availability) = 2
    /\ arg.doctors[1].availability[1].end_at - arg.doctors[1].availability[1].start_at = 20
    /\ arg.doctors[1].availability[2].end_at - arg.doctors[1].availability[2].start_at = 240
    /\ Len(ret) >= 1
    /\ ret[1].doctorId = 1
    /\ ret[1].startAt = arg.doctors[1].availability[2].start_at + 210
    /\ ret[1].endAt = arg.doctors[1].availability[2].end_at

\* s has no two blanks in a row, no line break and no tab
SingleSpaced(s) ==
    /\ \A i \in 1..Len(s) : s[i] # "\n" /\ s[i] # "\t"
    /\ \A i \in 1..(Len(s) - 1) : ~(IsSpace(s[i]) /\ IsSpace(s[i + 1]))

\* s neither starts nor ends with a comma or a blank
CleanEnds(s) ==
    s # << >> => /\ s[1] # "," /\ ~IsSpace(s[1])
                 /\ s[Len(s)] # "," /\ ~IsSpace(s[Len(s)])

\* s has no two commas with nothing or only blanks between them
NoCommaPair(s) ==
    \A i, j \in 1..Len(s) :
        (i < j /\ s[i] = "," /\ s[j] = ",") => \E k \in (i + 1)..(j - 1) : ~IsSpace(s[k])

\* C19 (as the specification states it): what cleanAddress returns has no
\* run of two or more blanks, no line break or tab, no two commas with
\* nothing or only blanks between them, and no comma or blank at either end
C19_CleanAddressOutput ==
    pc = "cleaned" => SingleSpaced(ret) /\ NoCommaPair(ret) /\ CleanEnds(ret)

\* C20: a synthesized phone number, of the scraper or of the patient
\* generator, is nine decimal digits the first of which is 9, whatever the
\* random draw
C20_PhoneNineDigits ==
    pc \in {"phoned", "patient_phoned"} =>
        /\ Len(ret) = 9
        /\ ret[1] = "9"
        /\ \A i \in 1..Len(ret) : \E d \in 1..Len(DigitChars) : ret[i] = DigitChars[d]

\* the draw 0 gives 910000000
C20_Witness ==
    /\ pc = "phoned"
    /\ arg = 0
    /\ ret = << "9", "1", "0", "0", "0", "0", "0", "0", "0" >>

\* the largest draw gives 999999999
C20_WitnessLargest ==
    /\ pc = "patient_phoned"
    /\ arg = 99999999
    /\ ret = << "9", "9", "9", "9", "9", "9", "9", "9", "9" >>

\* a rating is null or lies in [0, 5]
RatingInRange(rating) == rating.isNull \/ (rating.tenths >= 0 /\ rating.tenths <= 50)

\* C21 (as the specification states it): whatever the texts of the rating and
\* review-count attributes, the record and the row handed to the store have
\* a rating that is null or in [0, 5] and a review count that is not negative
C21_RatingAndReviewCountInRange ==
    pc = "numbered" =>
        /\ RatingInRange(ret.doctor.rating)
        /\ RatingInRange(ret.row.rating)
        /\ ret.doctor.reviewCount >= 0
        /\ ret.row.review_count >= 0

\* C22 (as the specification states it): generate() returns exactly
\* NUM_PATIENTS patients, no two of them with the same document number or
\* the same email address
C22_PatientsCountedAndUnique ==
    patientsData # << >> =>
        /\ Len(patientsData) = NumPatients
        /\ \A i, j \in DOMAIN patientsData :
              i # j => /\ patientsData[i].documentNumber # patientsData[j].documentNumber
                       /\ patientsData[i].email # patientsData[j].email

\* the days after today of the window that are neither Saturday nor Sunday,
\* today being day dow of the week
WorkDays(dow) == {day \in 1..WindowDays : (dow + day) % 7 \notin {0, 6}}

\* the profile call whose availability was synthesized
Synthesized ==
    /\ pc = "profiled"
    /\ ~(arg.useReal /\ arg.result.addressId # "" /\ Len(KeptSlots(arg.answer)) >= 1)

C23_WitnessInPerson ==
    /\ Synthesized
    /\ arg.dow = 3
    /\ ~includes(toLowerCase(ret.address), OnlineMarker)
    /\ Len(ret.availability) = 20
    /\ ret.availability[20].modality = "in_person"

\* C24 (as the specification states it): a listing whose URL was already
\* accepted in the run is skipped before any work is done on it, in both
\* scrapers: no profile request, no field extracted, no validator call
C24_DuplicateSkippedBeforeAnyWork ==
    \A i \in 1..Len(candidateLog) :
        candidateLog[i].outcome = "duplicate" =>
            /\ ~candidateLog[i].fetched
            /\ ~candidateLog[i].extracted
            /\ ~candidateLog[i].validated

\* C25 (as the specification states it): the address of a record is the
\* value of the first of the five methods, in the order 1..5, that gives a
\* usable (non-empty) value on the page, a later method being tried whenever
\* all the earlier ones gave none; it is 'Consultorio en <city>' when no
\* method gives one; it is never empty
C25_FirstUsableMethodWins ==
    pc = "addressed" =>
        LET usable == {k \in 1..5 : addressMethod(arg.doc, k).addr # << >>}
            first == CHOOSE k \in usable : \A j \in usable : k <= j
        IN  /\ ret.address # << >>
            /\ ret.address = IF usable = {} THEN ConsultorioEn \o arg.result.city
                             ELSE addressMethod(arg.doc, first).addr

\* C26 (as the specification states it): fetchAvailability returns, in the
\* order of the payload, one slot for each item that is not booked and has a
\* booking reference and none for any other item; every slot returned ends
\* exactly one hour after its start; a failed request or an unreadable answer
\* gives the empty list
C26_OneHourSlotPerFreeItem ==
    pc = "fetched" =>
        LET kept == KeptSlots(arg)
        IN  /\ Len(ret) = Len(kept)
            /\ \A i \in 1..Len(ret) :
                  /\ ret[i].startAt = newDate(kept[i].start)
                  /\ ret[i].endAt = ret[i].startAt + 60
            /\ arg.failed => ret = << >>

\* what C27 says of the scope being crawled, once its requests are answered
ScopeFetches ==
    (variant = "specialty" /\ pc = "cards") =>
        /\ pageLog[1].page = 1
        /\ pageLog[1].outcome = "notfound" =>
              /\ Len(pageLog) = 2
              /\ pageLog[2].page = 0
              /\ pageLog[2].outcome = "fail" =>
                    searchResults = << >> /\ doctors = << >>
        /\ pageLog[1].outcome # "notfound" => Len(pageLog) = 1
        /\ pageLog[1].outcome = "fail" =>
              searchResults = << >> /\ doctors = << >> /\ candidateLog = << >>
        /\ Len(doctors) <= MaxDoctorsPerCity
        /\ \A i \in 1..Len(doctors) :
              /\ isValidDoctorBySpecialty(doctors[i])
              /\ \A j \in 1..Len(doctors) :
                    i # j => doctors[i].profileUrl # doctors[j].profileUrl
              /\ \A j \in 1..Len(allDoctors) :
                    doctors[i].profileUrl # allDoctors[j].profileUrl

\* the crawl of a scope ends in the crawl of the next scope, or in the end
\* of the crawl after the last one
ScopeGoesOn ==
    /\ (variant = "specialty" /\ pc = "listing") => pc' = "cards"
    /\ (variant = "specialty" /\ pc = "cards" /\ pc' # "cards") =>
          IF cityIdx < numScopes
          THEN pc' = "listing" /\ cityIdx' = cityIdx + 1
          ELSE pc' = "crawled"

\* C27: in the per-specialty crawl a 404 on the listing of a scope is followed
\* by exactly one request of the homepage, whose cards go through the same
\* validator, the same set of accepted URLs and the same cap; any other error
\* is followed by no other request and leaves the scope without records; a
\* failed homepage request leaves it without records too; in every case the
\* crawl goes on with the next scope
C27_HomepageOnlyAfterNotFound == [](ScopeFetches) /\ [][ScopeGoesOn]_vars

\* a scope whose listing answered 404 and whose homepage gave a record
C27_Witness ==
    /\ variant = "specialty"
    /\ pc = "cards"
    /\ Len(pageLog) = 2
    /\ pageLog[1].outcome = "notfound"
    /\ pageLog[2].outcome = "results"
    /\ Len(doctors) >= 1

\* the second scope gives a record after both requests of the first failed
C27_WitnessNextScope ==
    /\ variant = "specialty"
    /\ pc = "cards"
    /\ cityIdx = 2
    /\ [city |-> 1, page |-> 1] \in pageFailures
    /\ allDoctors = << >>
    /\ Len(doctors) >= 1

\* the store holds a doctor that no insert of this run created
HadDoctors == db.doctors >= 1 /\ attempts.doctors = 0

\* a run on a store that holds a doctor has crawled nothing, inserted
\* nothing, and left the store and the failure log as they were
NothingDone ==
    /\ pc \in {"connect", "count", "skip", "exited"}
    /\ steps = << >>
    /\ scrapeOutcome = "none"
    /\ pageLog = << >> /\ candidateLog = << >> /\ allDoctors = << >>
    /\ \A t \in Tables : attempts[t] = 0
    /\ \A t \in Tables \ {"doctors"} : db[t] = 0
    /\ errors = << >> /\ addCalls = 0

\* the crawl starts, after the count, only on a store without doctors
CrawlOnlyOnEmptyStore ==
    (pc = "count" /\ pc' \in {"page", "listing"}) => db.doctors = 0

C29_WitnessFailed ==
    /\ HadDoctors
    /\ pc = "exited"
    /\ exitCode = 1

\* the number of appointments of ret that name doctor id
AppointmentsOf(id) == Cardinality({k \in 1..Len(ret) : ret[k].doctorId = id})

\* C28: every appointment generate returns names a doctor of the list
\* insertDoctors returned, a treatment of that very doctor and a patient of
\* the list insertPatients returned; a doctor without inserted availability
\* or without inserted treatments gets none; an empty list of patients gives
\* no appointment; no doctor gets more than NUM_APPOINTMENTS_PER_DOCTOR
\* appointments nor more than four for each of its availability blocks
C28_AppointmentsNameStoredRows ==
    pc = "generated" =>
        /\ \A k \in 1..Len(ret) :
              /\ \E d \in 1..Len(arg.doctors) :
                    /\ arg.doctors[d].id = ret[k].doctorId
                    /\ \E t \in 1..Len(arg.doctors[d].treatments) :
                          arg.doctors[d].treatments[t].id = ret[k].treatmentId
              /\ \E p \in 1..Len(arg.patients) : arg.patients[p].id = ret[k].patientId
        /\ \A d \in 1..Len(arg.doctors) :
              /\ AppointmentsOf(arg.doctors[d].id) <= Len(arg.rnd)
              /\ AppointmentsOf(arg.doctors[d].id) <= 4 * Len(arg.doctors[d].availability)
              /\ (Len(arg.doctors[d].availability) = 0 \/ Len(arg.doctors[d].treatments) = 0)
                    => AppointmentsOf(arg.doctors[d].id) = 0
        /\ arg.patients = << >> => ret = << >>

\* five attempts allowed for a doctor with a single block of four hours:
\* four appointments, all with a treatment of that doctor
C28_Witness ==
    /\ pc = "generated"
    /\ Len(arg.rnd) = 5
    /\ Len(arg.doctors[1].availability) = 1
    /\ AppointmentsOf(1) = 4
    /\ \A k \in 1..4 : ret[k].doctorId = 1 /\ ret[k].treatmentId \in {1, 2}

\* no patient was inserted: no appointment, though both doctors have blocks
C28_WitnessNoPatients ==
    /\ pc = "generated"
    /\ arg.patients = << >>
    /\ Len(arg.doctors[1].availability) = 2
    /\ Len(arg.doctors[2].availability) = 1
    /\ ret = << >>

\* the second doctor has a block but no inserted treatment: only the first
\* doctor gets an appointment
C28_WitnessNoTreatments ==
    /\ pc = "generated"
    /\ arg.doctors[2].treatments = << >>
    /\ Len(arg.doctors[2].availability) = 1
    /\ Len(ret) = 1
    /\ ret[1].doctorId = 1

\* the promise of an attempt is settled by exactly one of the connect
\* callback, the error handler and the timer, which puts the other two out
\* of action; there is never more than one socket, nor more sockets than
\* maxAttempts
OneEventDecides ==
    /\ Len(wait.events) <= 1
    /\ wait.promise = "pending" =>
          wait.events = << >> /\ wait.timeout /\ wait.socket = "connecting"
    /\ wait.promise = "resolved" => wait.events = << "connect" >>
    /\ wait.promise = "rejected" => wait.events \in {<< "error" >>, << "timeout" >>}
    /\ wait.promise \in {"resolved", "rejected"} =>
          ~wait.timeout /\ wait.socket = "destroyed"
    /\ wait.open <= 1
    /\ wait.sockets <= arg.maxAttempts

\* the call rejected: every one of the maxAttempts attempts failed and the
\* call slept delayMs after each but the last
RejectedAfterAll ==
    (pc = "waited" /\ ret.settled = "rejected") =>
        /\ wait.sockets = arg.maxAttempts
        /\ wait.failed = arg.maxAttempts
        /\ ret.message[1] = "Database not available after "
        /\ ret.message[2] = arg.maxAttempts
        /\ wait.slept = [i \in 1..(arg.maxAttempts - 1) |-> arg.delayMs]

\* the call resolved after an attempt that connected, the last one made; it
\* slept delayMs after each failed attempt and 3000 ms after the connection
ResolvedAfterConnect ==
    /\ wait.promise = "resolved"
    /\ wait.events = << "connect" >>
    /\ wait.failed = wait.sockets - 1
    /\ wait.slept = [i \in 1..wait.sockets |->
                        IF i < wait.sockets THEN arg.delayMs ELSE 3000]

\* a socket is created only when none is open and no attempt has connected
OneAtATime ==
    wait'.sockets > wait.sockets =>
        /\ wait.open = 0
        /\ wait.promise # "resolved"
        /\ wait'.sockets = wait.sockets + 1

WaitSettlesOnceFromOneAttempt ==
    /\ <>(pc = "waited")
    /\ [](OneEventDecides /\ RejectedAfterAll)
    /\ []((pc = "waited" /\ ret.settled = "resolved") =>
            IF arg.maxAttempts >= 1 THEN ResolvedAfterConnect
            ELSE wait.sockets = 0 /\ wait.slept = << >>)
    /\ []((pc = "waited" /\ arg.maxAttempts = 0) => ret.settled = "resolved")
    /\ [][OneAtATime]_vars

\* a call that resolved on its third attempt, after two failed ones
WaitResolvedThird ==
    /\ pc = "waited"
    /\ ret.settled = "resolved"
    /\ arg.maxAttempts = 3
    /\ wait.failed = 2
    /\ wait.slept = << 2000, 2000, 3000 >>

\* a call that rejected after three failed attempts, the last by timeout
WaitRejectedThird ==
    /\ pc = "waited"
    /\ ret.settled = "rejected"
    /\ arg.maxAttempts = 3
    /\ wait.failed = 3
    /\ wait.events = << "timeout" >>
    /\ wait.slept = << 500, 500 >>

====
